---------------------------- MODULE Spec2Model ----------------------------
(***************************************************************************)
(* A model of network_sim: the bit buffer (utils/bit_string.rs,            *)
(* utils/macros.rs), the CRC codec (data_link_layer/crc.rs), the bit       *)
(* stuffing framer (data_link_layer/bit_stuffing.rs), the TCP-like frame   *)
(* builder (data_link_layer/frame/tcp.rs) and the cable                    *)
(* (physical_layer/cable.rs).                                              *)
(*                                                                         *)
(* A BitString is a sequence over {0, 1} (Bit::Off = 0, Bit::On = 1).      *)
(* Rust indexes from 0, TLA+ sequences from 1: an operator that takes a    *)
(* Rust index adds one when it touches the sequence.                       *)
(*                                                                         *)
(* A call that can abort returns a record: tag "Ok" (with its bits),       *)
(* "Err" (an anyhow error) or "Panic" (an assert!, expect or arithmetic    *)
(* overflow), with the message of the failure.                             *)
(***************************************************************************)
EXTENDS Integers, Sequences, FiniteSets, TLC

VARIABLES
    \* crc.rs: one add followed by one check_and_remove, or one check_and_remove
    \* of a buffer received; crc_received is the buffer check_and_remove was given
    crc_pc, generator, crc_data, crc_added, crc_received, crc_checked,
    \* bit_stuffing.rs: the framer applied to one buffer
    stuff_in, stuffed, unstuffed, wire, wire_decoded,
    \* frame/tcp.rs: a TCPFrameBuilder, the chunks given to build_all, its result
    builder, data_points, built,
    \* physical_layer/cable.rs: three nodes, a cable between the first two, the
    \* receivers' queues, the send_bits call in progress; what the queues and
    \* the strategy were when that call began
    node_mac, node1_mac, node2_mac, latency, time_between_bits,
    corruption_type, queue, receiver_open, call,
    queue_at_call, corruption_at_call,
    \* data_link_layer/mod.rs: the Mutex around the cable and the threads that
    \* call DataLinkLayer::send_bits on it
    cable_lock, thread,
    \* utils/corruption_type.rs: two Corruption values constructed alike and
    \* given the same buffers one call after the other; the wall clock
    cor_pc, cor_a, cor_b, cor_a_before, cor_data, cor_out_a, cor_out_b,
    cor_bits, now,
    \* utils/bit_string.rs, utils/macros.rs: a buffer, the operation applied to
    \* it and what came of it
    bits_pc, bits_in, bits_op, bits_out,
    \* physical_layer/cable.rs: the cables that end at one node, each with its
    \* own strategy and the send_bits call in progress on it
    cables

crcVars == <<crc_pc, generator, crc_data, crc_added, crc_received, crc_checked>>
stuffVars == <<stuff_in, stuffed, unstuffed, wire, wire_decoded>>
frameVars == <<builder, data_points, built>>
cableFixed == <<node_mac, node1_mac, node2_mac, latency, time_between_bits>>
cableVars == <<cableFixed, corruption_type, queue, receiver_open, call,
               queue_at_call, corruption_at_call>>
linkVars == <<cable_lock, thread>>
corVars == <<cor_pc, cor_a, cor_b, cor_a_before, cor_data, cor_out_a, cor_out_b,
             cor_bits, now>>
bitsVars == <<bits_pc, bits_in, bits_op, bits_out>>
sharedVars == <<cables>>
vars == <<crcVars, stuffVars, frameVars, cableVars, linkVars, corVars, bitsVars,
          sharedVars>>

(***************************************************************************)
(* Bounds of the model.                                                    *)
(***************************************************************************)
MaxGenLen == 4
MaxDataLen == 6
MaxStuffLen == 12
MaxChunks == 2
MaxCableLen == 2
MaxQueued == 4
MaxCorBits == 4
MaxBurstLen == 12
MaxBurstCalls == 2
MaxBitsLen == 9
MaxShift == 11
MaxSharedLen == 2

(***************************************************************************)
(* Bit and BitString (utils/bit.rs, utils/bit_string.rs).                  *)
(***************************************************************************)
Off == 0
On == 1
Bit == {Off, On}

BitStrings(n) == UNION {[1..k -> Bit] : k \in 0..n}

Ok(b) == [tag |-> "Ok", bits |-> b, msg |-> ""]
Err(m) == [tag |-> "Err", bits |-> <<>>, msg |-> m]
Panic(m) == [tag |-> "Panic", bits |-> <<>>, msg |-> m]
NotCalled == [tag |-> "NotCalled", bits |-> <<>>, msg |-> ""]

\* impl BitXor for Bit
BitXor(a, b) == IF a = b THEN Off ELSE On

reverse(bs) == [i \in 1..Len(bs) |-> bs[Len(bs) + 1 - i]]

append_zeroes(bs, amount) == bs \o [i \in 1..amount |-> Off]

\* The caller has checked index + Len(bits) <= Len(bs) (the assert! of set_bits).
set_bits(bs, index, bits) ==
    [i \in 1..Len(bs) |->
        IF i > index /\ i <= index + Len(bits) THEN bits[i - index] ELSE bs[i]]

\* The caller has checked Len(other) + index <= Len(bs) (the assert!).
xor_assign_on_index(bs, other, index) ==
    [i \in 1..Len(bs) |->
        IF i > index /\ i <= index + Len(other)
        THEN BitXor(bs[i], other[i - index])
        ELSE bs[i]]

remove_last(bs) == IF Len(bs) = 0 THEN bs ELSE SubSeq(bs, 1, Len(bs) - 1)

\* remove_len(len - n, n); the caller has checked n <= Len(bs).
remove_last_len(bs, n) == SubSeq(bs, 1, Len(bs) - n)

\* remove_bit; the caller has checked index < Len(bs).
remove_bit(bs, index) ==
    SubSeq(bs, 1, index) \o SubSeq(bs, index + 2, Len(bs))

\* insert_bit: assert!(index < len), then splice(index..index, bit).
insert_bit(bs, index, bit) ==
    IF index < Len(bs)
    THEN Ok(SubSeq(bs, 1, index) \o <<bit>> \o SubSeq(bs, index + 1, Len(bs)))
    ELSE Panic("Trying to insert index out of bounds")

(***************************************************************************)
(* data_link_layer/crc.rs                                                  *)
(***************************************************************************)
\* The loop of binary_division: for xor_index in (0..=len_diff).rev().
RECURSIVE division_loop(_, _, _)
division_loop(res, div, xor_index) ==
    LET xored == IF res[Len(res)] = On
                 THEN xor_assign_on_index(res, div, xor_index)
                 ELSE res
        popped == remove_last(xored)
    IN  IF xor_index = 0 THEN popped ELSE division_loop(popped, div, xor_index - 1)

\* binary_division aborts on an empty divisor (get_last().expect on the emptied
\* buffer) and, on the short path, on an empty dividend (divident.len() - 1).
binary_division_panics(divident, divisor) ==
    \/ Len(divisor) = 0
    \/ Len(divident) < Len(divisor) /\ Len(divident) = 0

\* binary_division without the reverse() of its result.
binary_division_unreversed(divident, divisor) ==
    IF Len(divident) < Len(divisor)
    THEN append_zeroes(<<>>, Len(divisor) - Len(divident) - 1) \o divident
    ELSE division_loop(reverse(divident), reverse(divisor),
                       Len(divident) - Len(divisor))

binary_division(divident, divisor) ==
    IF Len(divident) < Len(divisor)
    THEN append_zeroes(<<>>, Len(divisor) - Len(divident) - 1) \o divident
    ELSE reverse(division_loop(reverse(divident), reverse(divisor),
                               Len(divident) - Len(divisor)))

add(g, d) ==
    IF Len(g) = 0 THEN Panic("Generator cannot be empty")
    ELSE IF Len(d) = 0 THEN Panic("Unable to add a crc to no data")
    ELSE IF g[1] # On THEN Panic("Generator must start with a 1 or On bit")
    ELSE LET extended == append_zeroes(d, Len(g) - 1)
             crc == binary_division(extended, g)
         IN  Ok(set_bits(extended, Len(extended) - Len(crc), crc))

RECURSIVE SumBits(_)
SumBits(bs) == IF Len(bs) = 0 THEN 0 ELSE bs[1] + SumBits(Tail(bs))

\* check_and_remove without its ensure!.
check_and_remove_unensured(g, d) ==
    IF binary_division_panics(d, g) THEN Panic("binary_division")
    ELSE IF Len(g) - 1 > Len(d) THEN Panic("Trying to remove index out of bounds")
    ELSE Ok(remove_last_len(d, Len(g) - 1))

check_and_remove(g, d) ==
    IF binary_division_panics(d, g) THEN Panic("binary_division")
    ELSE IF SumBits(binary_division(d, g)) # 0 THEN Err("The message is invalid for generator")
    ELSE IF Len(g) - 1 > Len(d) THEN Panic("Trying to remove index out of bounds")
    ELSE Ok(remove_last_len(d, Len(g) - 1))

(***************************************************************************)
(* utils/macros.rs: fixed-width words, most significant bit first.         *)
(***************************************************************************)
RECURSIVE Pow2(_)
Pow2(n) == IF n = 0 THEN 1 ELSE 2 * Pow2(n - 1)

\* impl From<$t> for BitString: bit idx is data & (1 << (bit_size - 1) >> idx).
from_val(data, bit_size) ==
    [i \in 1..bit_size |-> (data \div Pow2(bit_size - i)) % 2]

\* append_$t pushes the same bits as From<$t>.
append_type(bs, data, bit_size) == bs \o from_val(data, bit_size)

\* insert_$t: assert!(index < len), then splice(index..index, BitString::from(data)).
insert_type(bs, index, data, bit_size) ==
    IF index < Len(bs)
    THEN Ok(SubSeq(bs, 1, index) \o from_val(data, bit_size)
            \o SubSeq(bs, index + 1, Len(bs)))
    ELSE Panic("assertion failed: index < self.bit_vec.len()")

prepend_type(bs, data, bit_size) == insert_type(bs, 0, data, bit_size)

(***************************************************************************)
(* data_link_layer/bit_stuffing.rs                                         *)
(***************************************************************************)
FLAG_SEQUECE == 126

\* The scan of stuff_bits over the bits of index lo..hi-1, entered with the
\* counter at count: the places pushed to insert_places and the counter
\* afterwards.  The range is halved, the second half entered with the counter
\* the first half leaves.
RECURSIVE stuff_scan(_, _, _, _)
stuff_scan(bs, lo, hi, count) ==
    IF hi <= lo THEN [places |-> <<>>, count |-> count]
    ELSE IF hi = lo + 1
    THEN LET c == IF bs[lo + 1] = Off THEN 0 ELSE count + 1
         IN  IF c = 6 THEN [places |-> <<lo>>, count |-> 0]
             ELSE [places |-> <<>>, count |-> c]
    ELSE LET mid == (lo + hi) \div 2
             l == stuff_scan(bs, lo, mid, count)
             r == stuff_scan(bs, mid, hi, l.count)
         IN  [places |-> l.places \o r.places, count |-> r.count]

\* The scan of stuff_bits from bit idx on: the places pushed to insert_places.
stuff_places(bs, idx, count) == stuff_scan(bs, idx, Len(bs), count).places

\* for idx in insert_places.iter().rev() { data.insert_bit(*idx, Bit::Off) }
RECURSIVE insert_rev(_, _, _)
insert_rev(bs, places, k) ==
    IF k = 0 THEN Ok(bs)
    ELSE LET r == insert_bit(bs, places[k], Off)
         IN  IF r.tag # "Ok" THEN r ELSE insert_rev(r.bits, places, k - 1)

stuff_bits(bs) ==
    LET insert_places == stuff_places(bs, 0, 0)
    IN  insert_rev(bs, insert_places, Len(insert_places))

\* The scan of decode_bits from bit idx on: the places pushed to remove_places.
RECURSIVE unstuff_places(_, _, _)
unstuff_places(bs, idx, count) ==
    IF idx >= Len(bs) THEN <<>>
    ELSE IF bs[idx + 1] = On THEN unstuff_places(bs, idx + 1, count + 1)
    ELSE IF count = 5 THEN <<idx>> \o unstuff_places(bs, idx + 1, 0)
    ELSE unstuff_places(bs, idx + 1, 0)

\* for &idx in remove_places.iter().rev() { data.remove_bit(idx) }
RECURSIVE remove_rev(_, _, _)
remove_rev(bs, places, k) ==
    IF k = 0 THEN Ok(bs)
    ELSE IF places[k] >= Len(bs) THEN Panic("Trying to remove index out of bounds")
    ELSE remove_rev(remove_bit(bs, places[k]), places, k - 1)

decode_bits(bs) ==
    LET remove_places == unstuff_places(bs, 0, 0)
    IN  remove_rev(bs, remove_places, Len(remove_places))

surround_flags(bs) ==
    LET r == prepend_type(bs, FLAG_SEQUECE, 8)
    IN  IF r.tag # "Ok" THEN r ELSE Ok(append_type(r.bits, FLAG_SEQUECE, 8))

prepare_bits(bs) ==
    LET r == stuff_bits(bs)
    IN  IF r.tag # "Ok" THEN r ELSE surround_flags(r.bits)


(***************************************************************************)
(* utils/macros.rs: get_$t, set_$t, as_vec_*_$t.                           *)
(***************************************************************************)
\* get_$t: bit idx of the word is the buffer's bit index + idx, with mask
\* 1 << (bit_size - idx - 1); the loop breaks at the end of the buffer.
RECURSIVE get_loop(_, _, _, _)
get_loop(bs, index, bit_size, idx) ==
    IF idx >= bit_size \/ index + idx >= Len(bs) THEN 0
    ELSE bs[index + idx + 1] * Pow2(bit_size - idx - 1)
         + get_loop(bs, index, bit_size, idx + 1)

get_type(bs, index, bit_size) == get_loop(bs, index, bit_size, 0)

\* data.overflowing_shr(rhs): the shift amount is taken modulo the width.
overflowing_shr(data, rhs, bit_size) == data \div Pow2(rhs % bit_size)

\* set_$t: the bit at index + idx becomes
\* data.overflowing_shr(bit_size - idx) & 1, for the bits the buffer has.
set_type(bs, index, data, bit_size) ==
    [i \in 1..Len(bs) |->
        IF i > index /\ i <= index + bit_size
        THEN overflowing_shr(data, bit_size - (i - index - 1), bit_size) % 2
        ELSE bs[i]]

\* One whole chunk of chunks_exact: byte |= bit << (bit_size - 1 - idx).
RECURSIVE chunk_word(_, _, _)
chunk_word(chunk, bit_size, idx) ==
    IF idx >= Len(chunk) THEN 0
    ELSE chunk[idx + 1] * Pow2(bit_size - 1 - idx) + chunk_word(chunk, bit_size, idx + 1)

\* The remainder of chunks_exact: byte |= bit << idx.
RECURSIVE remainder_word(_, _)
remainder_word(chunk, idx) ==
    IF idx >= Len(chunk) THEN 0
    ELSE chunk[idx + 1] * Pow2(idx) + remainder_word(chunk, idx + 1)

as_vec_with_padding(bs, bit_size) ==
    LET whole == Len(bs) \div bit_size
        words == [j \in 1..whole |->
                    chunk_word(SubSeq(bs, (j - 1) * bit_size + 1, j * bit_size),
                               bit_size, 0)]
        remainder == SubSeq(bs, whole * bit_size + 1, Len(bs))
    IN  IF Len(remainder) = 0 THEN words
        ELSE Append(words, remainder_word(remainder, 0))

\* try_as_vec_exact_$t and as_vec_exact_$t: the words, or why there are none.
WordsOk(words) == [tag |-> "Ok", bits |-> <<>>, words |-> words, msg |-> ""]

try_as_vec_exact(bs, bit_size) ==
    IF Len(bs) % bit_size # 0
    THEN [tag |-> "Err", bits |-> <<>>, words |-> <<>>,
          msg |-> "Length of the bitstring was not a multiple of bit size"]
    ELSE WordsOk(as_vec_with_padding(bs, bit_size))

as_vec_exact(bs, bit_size) ==
    IF Len(bs) % bit_size # 0
    THEN [tag |-> "Panic", bits |-> <<>>, words |-> <<>>,
          msg |-> "The bitstring is not a multiple of bit size"]
    ELSE WordsOk(as_vec_with_padding(bs, bit_size))

(***************************************************************************)
(* utils/bit_string.rs: >>= and <<=.                                       *)
(***************************************************************************)
with_zeroes(amount) == [i \in 1..amount |-> Off]

\* shr_assign: with amount >= len the buffer is first replaced by amount
\* zeroes, and the rest of the function goes on with that buffer.
shr_assign(bs, amount) ==
    LET self == IF amount >= Len(bs) THEN with_zeroes(amount) ELSE bs
        old_elements == Len(self) - amount
    IN  append_zeroes(<<>>, amount) \o SubSeq(self, 1, old_elements)

shl_assign(bs, amount) ==
    LET self == IF amount >= Len(bs) THEN with_zeroes(amount) ELSE bs
        new_bit_vec == SubSeq(self, amount + 1, Len(self))
    IN  append_zeroes(new_bit_vec, amount)

(***************************************************************************)
(* data_link_layer/frame/tcp.rs                                            *)
(*                                                                         *)
(* An Option is a sequence of at most one element.  A u32 is the pair of   *)
(* its 16-bit halves <<high, low>>: its 32 bits, most significant first,   *)
(* are those of high followed by those of low.                             *)
(***************************************************************************)
None == <<>>
Some(v) == <<v>>
U32(high, low) == <<high, low>>

SYN == 2
ACK == 16

\* a | b on u8
RECURSIVE BitOr8Loop(_, _, _)
BitOr8Loop(a, b, i) ==
    IF i >= 8 THEN 0
    ELSE (IF (a \div Pow2(i)) % 2 = 1 \/ (b \div Pow2(i)) % 2 = 1 THEN Pow2(i) ELSE 0)
         + BitOr8Loop(a, b, i + 1)

BitOr8(a, b) == BitOr8Loop(a, b, 0)

append_u32(bs, w) == append_type(append_type(bs, w[1], 16), w[2], 16)

TCPFrameBuilder_new ==
    [source_port |-> None, target_port |-> None,
     sequence_num |-> U32(0, 0), ack_num |-> U32(0, 0),
     data_offset |-> 5, flag_byte |-> 0, window_size |-> None,
     urgent_pointer |-> 0, options |-> [i \in 1..10 |-> U32(0, 0)]]

BuildOk(f) == [tag |-> "Ok", frames |-> f, msg |-> ""]
BuildPanic(m) == [tag |-> "Panic", frames |-> <<>>, msg |-> m]
NotBuilt == [tag |-> "NotBuilt", frames |-> <<>>, msg |-> ""]

\* if let Some(words) = data_offset.checked_sub(5) { for i in 0..words { append_u32 } }
RECURSIVE append_options(_, _, _, _)
append_options(bs, options, words, i) ==
    IF i >= words THEN bs
    ELSE append_options(append_u32(bs, options[i + 1]), options, words, i + 1)

\* The header with the target port appended before the source port.
assemble_ports_swapped(b, data) ==
    LET h1 == append_type(<<>>, b.target_port[1], 16)
        h2 == append_type(h1, b.source_port[1], 16)
        h3 == append_u32(h2, b.sequence_num)
        h4 == append_u32(h3, b.ack_num)
        h5 == append_type(h4, (b.data_offset * 16) % 256, 8)
        h6 == append_type(h5, b.flag_byte, 8)
        h7 == append_type(h6, b.window_size[1], 16)
        h8 == append_type(h7, 0, 16)
        h9 == append_type(h8, b.urgent_pointer, 16)
        h10 == IF b.data_offset >= 5
               THEN append_options(h9, b.options, b.data_offset - 5, 0)
               ELSE h9
    IN  h10 \o data

\* The header of build, from the first append_u16 to the payload.
assemble(b, data) ==
    LET h1 == append_type(<<>>, b.source_port[1], 16)
        h2 == append_type(h1, b.target_port[1], 16)
        h3 == append_u32(h2, b.sequence_num)
        h4 == append_u32(h3, b.ack_num)
        h5 == append_type(h4, (b.data_offset * 16) % 256, 8)
        h6 == append_type(h5, b.flag_byte, 8)
        h7 == append_type(h6, b.window_size[1], 16)
        h8 == append_type(h7, 0, 16)
        h9 == append_type(h8, b.urgent_pointer, 16)
        h10 == IF b.data_offset >= 5
               THEN append_options(h9, b.options, b.data_offset - 5, 0)
               ELSE h9
    IN  h10 \o data

\* for _ in 0..(output_bitstring.len() % 16) { append_bit(Bit::Off) }
pad_with_zeros(bs) == append_zeroes(bs, Len(bs) % 16)

RECURSIVE SumWords(_)
SumWords(ws) == IF Len(ws) = 0 THEN 0 ELSE ws[1] + SumWords(Tail(ws))

\* while sum > 0xFFFF { sum = (sum >> 16) + (sum & 0xFFFF) }
RECURSIVE fold_carries(_)
fold_carries(sum) ==
    IF sum > 65535 THEN fold_carries((sum \div 65536) + (sum % 65536)) ELSE sum

\* find_checksum without the complement.
find_checksum_uncomplemented(bs) ==
    fold_carries(SumWords(as_vec_with_padding(bs, 16)))

\* let checksum: u16 = !(sum as u16)
find_checksum(bs) == 65535 - fold_carries(SumWords(as_vec_with_padding(bs, 16)))

build(b, data) ==
    IF b.source_port = None \/ b.target_port = None \/ b.window_size = None
    THEN BuildPanic("assertion failed: is_some()")
    ELSE LET padded == pad_with_zeros(assemble(b, data))
         IN  IF Len(padded) % 16 # 0
             THEN BuildPanic("The full bitstring wasn't padded correctly")
             ELSE LET checksum == find_checksum(padded)
                      output_bitstring == set_type(padded, 128, checksum, 16)
                  IN  IF get_type(output_bitstring, 128, 16) # checksum
                      THEN BuildPanic("AAAAAAaa")
                      ELSE BuildOk(<<[source_port |-> b.source_port[1],
                                      target_port |-> b.target_port[1],
                                      sequence_num |-> b.sequence_num,
                                      ack_num |-> b.ack_num,
                                      data_offset |-> b.data_offset,
                                      flag_byte |-> b.flag_byte,
                                      window_size |-> b.window_size[1],
                                      checksum |-> checksum,
                                      urgent_pointer |-> b.urgent_pointer,
                                      options |-> b.options,
                                      data |-> data,
                                      output_bitstring |-> output_bitstring]>>)

\* for (idx, data) in data_points.iter().enumerate() {
\*     self.sequence_num = idx as u32; res_vec.push(self.build(data)) }
RECURSIVE build_loop(_, _, _, _)
build_loop(b, points, idx, res_vec) ==
    IF idx >= Len(points) THEN BuildOk(res_vec)
    ELSE LET r == build([b EXCEPT !.sequence_num = U32(0, idx)], points[idx + 1])
         IN  IF r.tag # "Ok" THEN r
             ELSE build_loop(b, points, idx + 1, res_vec \o r.frames)

build_all(b, points) ==
    IF b.source_port = None \/ b.target_port = None \/ b.window_size = None
    THEN BuildPanic("assertion failed: is_some()")
    ELSE build_loop(b, points, 0, <<>>)


(***************************************************************************)
(* utils/rand.rs: XorShift.  The u128 state is held as the set of the      *)
(* indices of its On bits, bit 0 the least significant.                    *)
(***************************************************************************)
U128Bits == 128

\* The u128 of a literal below 2^31.
U128(n) == {i \in 0..30 : (n \div Pow2(i)) % 2 = 1}

\* state << k and state >> k on u128: bits shifted out are lost.
shl(s, k) == {i + k : i \in {j \in s : j + k < U128Bits}}
shr(s, k) == {i - k : i \in {j \in s : j >= k}}
xor(a, b) == (a \ b) \cup (b \ a)

XorShift_new(seed) == U128(seed)

\* next_int: the new state, which is also the value returned.
next_int(state) ==
    LET a == xor(state, shl(state, 23))
        b == xor(a, shr(a, 17))
    IN  xor(b, shl(b, 26))

\* 2^k % n
RECURSIVE Pow2Mod(_, _)
Pow2Mod(k, n) ==
    IF k = 0 THEN 1 % n
    ELSE IF k % 2 = 0 THEN LET h == Pow2Mod(k \div 2, n) IN (h * h) % n
    ELSE (2 * Pow2Mod(k - 1, n)) % n

\* (value >> (8 * k)) & 0xFF
RECURSIVE ByteFrom(_, _, _)
ByteFrom(s, k, j) ==
    IF j >= 8 THEN 0
    ELSE (IF 8 * k + j \in s THEN Pow2(j) ELSE 0) + ByteFrom(s, k, j + 1)

\* value % n of a u128, for a small n > 0: the bytes lo..hi-1 taken as a
\* number, halved until one byte is left.
RECURSIVE RemOf(_, _, _, _)
RemOf(s, n, lo, hi) ==
    IF hi = lo + 1 THEN ByteFrom(s, lo, 0) % n
    ELSE LET mid == (lo + hi) \div 2
         IN  (RemOf(s, n, lo, mid)
              + Pow2Mod(8 * (mid - lo), n) * RemOf(s, n, mid, hi)) % n

rem(s, n) == RemOf(s, n, 0, U128Bits \div 8)

(***************************************************************************)
(* utils/mac_address.rs                                                    *)
(***************************************************************************)
\* gen_addr: one next_int, its six low bytes, lowest first.
gen_addr(rand) ==
    LET num == next_int(rand)
    IN  [addr |-> [k \in 1..6 |-> ByteFrom(num, k - 1, 0)], rand |-> num]

\* The address of the n-th node made from MacAddressGenerator::new(seed).
RECURSIVE nth_rand(_, _)
nth_rand(seed, n) ==
    IF n = 0 THEN XorShift_new(seed) ELSE gen_addr(nth_rand(seed, n - 1)).rand

nth_addr(seed, n) == gen_addr(nth_rand(seed, n - 1)).addr

(***************************************************************************)
(* utils/bit_string.rs: flip_bits; utils/corruption_type.rs                *)
(***************************************************************************)
\* flip_bits: asserts index < len, then flips up to length bits from index.
flip_bits(bs, index, length) ==
    IF index >= Len(bs) THEN Panic("Trying to flip index out of bounds")
    ELSE Ok([i \in 1..Len(bs) |->
                IF i > index /\ i <= index + length THEN BitXor(bs[i], On)
                ELSE bs[i]])

\* flip_bit with a length of two.
flip_bit_pair(bs, index) == flip_bits(bs, index, 2)

flip_bit(bs, index) == flip_bits(bs, index, 1)

NoCorruption == [variant |-> "None", rand |-> {}]
OneBitFlip(rand) == [variant |-> "OneBitFlip", rand |-> rand]
MultiBitFlipOdd(rand, chance) ==
    [variant |-> "MultiBitFlipOdd", rand |-> rand, chance |-> chance]
MultiBitFlipEven(rand, chance) ==
    [variant |-> "MultiBitFlipEven", rand |-> rand, chance |-> chance]
BurstFlip(rand) == [variant |-> "BurstFlip", rand |-> rand]
Random(rand) == [variant |-> "Random", rand |-> rand]
RandomCorruption(rand) == [variant |-> "RandomCorruption", rand |-> rand]

ENUM_VARIANTS == 6

\* next_int_bound: min when min = max, without a draw.
next_int_bound(rand, min, max) ==
    IF min > max THEN [tag |-> "Panic", val |-> 0, rand |-> rand]
    ELSE IF min = max THEN [tag |-> "Ok", val |-> min, rand |-> rand]
    ELSE LET r == next_int(rand)
         IN  [tag |-> "Ok", val |-> min + rem(r, max - min), rand |-> r]

\* copy_reset: self is advanced by one next_int, the copy starts from the
\* old state xor the new one, shifted three times.
copy_reset(rand) ==
    LET n == next_int(rand)
        r0 == xor(rand, n)
        r1 == xor(r0, shr(r0, 13))
        r2 == xor(r1, shl(r1, 5))
    IN  [self |-> n, copy |-> xor(r2, shr(r2, 11))]

\* one_bit_flip with the index shifted by the wall clock.
one_bit_flip_clocked(rand, data) ==
    LET r == next_int(rand)
    IN  [res |-> flip_bit(data, (rem(r, Len(data)) + now) % Len(data)), rand |-> r]

\* one_bit_flip: idx = next_int() % len, flip_bit(idx).
one_bit_flip(rand, data) ==
    LET r == next_int(rand)
    IN  [res |-> flip_bit(data, rem(r, Len(data))), rand |-> r]

\* The loop of multi_bit_flip_even from bit i on: one draw per bit, the bit
\* is flipped unless event > chance.
RECURSIVE flip_each(_, _, _, _)
flip_each(rand, chance, data, i) ==
    IF i > Len(data) THEN [data |-> data, rand |-> rand]
    ELSE LET r == next_int(rand)
             event == rem(r, 100)
         IN  flip_each(r, chance,
                       IF event > chance THEN data
                       ELSE [data EXCEPT ![i] = BitXor(@, On)],
                       i + 1)

abs_diff(a, b) == IF a >= b THEN a - b ELSE b - a

Min(a, b) == IF a <= b THEN a ELSE b

\* multi_bit_flip_even without the closing one_bit_flip.
multi_bit_flip_even_unbalanced(rand, chance, data) ==
    IF chance > 100 THEN [res |-> Panic("assertion failed: chance <= 100"), rand |-> rand]
    ELSE IF chance = 0 THEN [res |-> Ok(data), rand |-> rand]
    ELSE LET f == flip_each(rand, chance, data, 1)
         IN  [res |-> Ok(f.data), rand |-> f.rand]

multi_bit_flip_even(rand, chance, data) ==
    IF chance > 100 THEN [res |-> Panic("assertion failed: chance <= 100"), rand |-> rand]
    ELSE IF chance = 0 THEN [res |-> Ok(data), rand |-> rand]
    ELSE LET f == flip_each(rand, chance, data, 1)
             count_ones_before == SumBits(data)
             count_ones_after == SumBits(f.data)
         IN  IF abs_diff(count_ones_before, count_ones_after) % 2 # 0
             THEN one_bit_flip(f.rand, f.data)
             ELSE [res |-> Ok(f.data), rand |-> f.rand]

\* multi_bit_flip_odd taking a chance above 100 for 100.
multi_bit_flip_odd_clamped(rand, chance, data) ==
    IF chance = 0 THEN [res |-> Ok(data), rand |-> rand]
    ELSE LET e == multi_bit_flip_even(rand, Min(chance, 100), data)
         IN  one_bit_flip(e.rand, e.res.bits)

multi_bit_flip_odd(rand, chance, data) ==
    IF chance > 100 THEN [res |-> Panic("assertion failed: chance <= 100"), rand |-> rand]
    ELSE IF chance = 0 THEN [res |-> Ok(data), rand |-> rand]
    ELSE LET e == multi_bit_flip_even(rand, chance, data)
         IN  one_bit_flip(e.rand, e.res.bits)

\* burst_flip with the start drawn from the whole buffer.
burst_flip_any_start(rand, data) ==
    LET b == next_int_bound(rand, Min(Len(data) \div 2, 4), Min(Len(data) \div 2, 16))
        r == next_int(b.rand)
    IN  [res |-> flip_bits(data, rem(r, Len(data)), b.val), rand |-> r]

\* burst_flip: len from next_int_bound, idx = next_int() % (data.len() - len).
burst_flip(rand, data) ==
    LET b == next_int_bound(rand, Min(Len(data) \div 2, 4), Min(Len(data) \div 2, 16))
        r == next_int(b.rand)
    IN  IF b.tag = "Panic"
        THEN [res |-> Panic("Min must be smaller than max"), rand |-> b.rand]
        ELSE [res |-> flip_bits(data, rem(r, Len(data) - b.val), b.val), rand |-> r]

\* The strategy random and random_corruption pick: chance from the first
\* draw of the copy, the variant from the second, `skipped` variants left
\* out at the front.
picked(copy, skipped) ==
    LET c1 == next_int(copy)
        chance == rem(c1, 101)
        c2 == next_int(c1)
        idx == rem(c2, ENUM_VARIANTS - 1 - skipped) + skipped
    IN  CASE idx = 0 -> NoCorruption
          [] idx = 1 -> OneBitFlip(c2)
          [] idx = 2 -> MultiBitFlipOdd(c2, chance)
          [] idx = 3 -> MultiBitFlipEven(c2, chance)
          [] idx = 4 -> BurstFlip(c2)

\* corrupt_borrow: the buffer returned and the strategy afterwards.  random
\* and random_corruption run the picked strategy by value (corrupt), so of
\* their own generator only the draw of copy_reset remains.
RECURSIVE corrupt_borrow(_, _)
corrupt_borrow(c, data) ==
    IF Len(data) = 0 THEN [res |-> Panic("assertion failed: !data.is_empty()"), after |-> c]
    ELSE IF c.variant = "None" THEN [res |-> Ok(data), after |-> c]
    ELSE IF c.variant \in {"Random", "RandomCorruption"}
    THEN LET cr == copy_reset(c.rand)
             p == picked(cr.copy, IF c.variant = "Random" THEN 0 ELSE 1)
         IN  [res |-> corrupt_borrow(p, data).res,
              after |-> [c EXCEPT !.rand = cr.self]]
    ELSE LET o == CASE c.variant = "OneBitFlip" -> one_bit_flip(c.rand, data)
                    [] c.variant = "MultiBitFlipEven" ->
                           multi_bit_flip_even(c.rand, c.chance, data)
                    [] c.variant = "MultiBitFlipOdd" ->
                           multi_bit_flip_odd(c.rand, c.chance, data)
                    [] c.variant = "BurstFlip" -> burst_flip(c.rand, data)
         IN  [res |-> o.res, after |-> [c EXCEPT !.rand = o.rand]]

corrupt(c, data) == corrupt_borrow(c, data).res

(***************************************************************************)
(* physical_layer/cable.rs                                                 *)
(***************************************************************************)
CableContext(bit, sp, tp) == [bit |-> bit, source_port |-> sp, target_port |-> tp]

\* The choice of send_bits with the two transmitters exchanged.
dest_of_own(n1_mac, n2_mac, source_mac) ==
    IF n1_mac = source_mac THEN 1
    ELSE IF n2_mac = source_mac THEN 2
    ELSE 0

\* The choice of send_bits without its bail!: an unknown source is taken for
\* node 2.
dest_of_no_bail(n1_mac, n2_mac, source_mac) ==
    IF n1_mac = source_mac THEN 2 ELSE 1

\* The node whose transmitter send_bits picks, 0 when it bails.
dest_of(n1_mac, n2_mac, source_mac) ==
    IF n1_mac = source_mac THEN 2
    ELSE IF n2_mac = source_mac THEN 1
    ELSE 0

\* Cable::new: Duration::from_millis(1) / throughput_ms, then / 8, both on
\* whole nanoseconds; a throughput of 0 aborts the division.
NanosPerMilli == 1000000

time_between_bits_of(throughput_ms) ==
    (NanosPerMilli \div throughput_ms) \div 8

from_millis(ms) == ms * NanosPerMilli

\* A call of send_bits: where it is, its arguments, the transmitter chosen,
\* the buffer after corrupt_borrow, the bits still to send, the time slept
\* since it began and what it returned.
IdleCall ==
    [pc |-> "idle", sender |-> 0, source_mac |-> <<>>, source_port |-> 0,
     target_port |-> 0, data |-> <<>>, dest |-> 0, corrupted |-> <<>>,
     rest |-> <<>>, elapsed |-> 0, result |-> ""]

\* Lines 81-87: the transmitter is chosen, or the call bails.
enter_call(n1_mac, n2_mac, sender, source_mac, sp, tp, data) ==
    LET d == dest_of(n1_mac, n2_mac, source_mac)
    IN  [pc |-> IF d = 0 THEN "returned" ELSE "latency",
         sender |-> sender, source_mac |-> source_mac,
         source_port |-> sp, target_port |-> tp,
         data |-> data, dest |-> d, corrupted |-> <<>>, rest |-> <<>>,
         elapsed |-> 0,
         result |-> IF d = 0 THEN "Err: Cable does not connect these nodes"
                    ELSE ""]

\* corrupt_borrow on the buffer without the sleep(latency) before it.
after_latency_unslept(c, cor, lat) ==
    LET r == corrupt_borrow(cor, c.data)
    IN  IF r.res.tag = "Panic"
        THEN [call |-> [c EXCEPT !.pc = "panicked", !.result = r.res.msg],
              corruption |-> cor]
        ELSE [call |-> [c EXCEPT !.pc = "sending", !.corrupted = r.res.bits,
                                 !.rest = r.res.bits],
              corruption |-> r.after]

\* Lines 89-91: sleep(latency), then corrupt_borrow on the buffer.
after_latency(c, cor, lat) ==
    LET r == corrupt_borrow(cor, c.data)
    IN  IF r.res.tag = "Panic"
        THEN [call |-> [c EXCEPT !.pc = "panicked", !.result = r.res.msg,
                                 !.elapsed = @ + lat],
              corruption |-> cor]
        ELSE [call |-> [c EXCEPT !.pc = "sending", !.corrupted = r.res.bits,
                                 !.rest = r.res.bits, !.elapsed = @ + lat],
              corruption |-> r.after]

\* The loop body with the result of dest.send(..) dropped instead of
\* returned by ?.
send_one_unchecked(c, open, spacing) ==
    [c EXCEPT !.rest = Tail(@), !.elapsed = @ + spacing]

\* Lines 94-99: dest.send(..)? and sleep(time_between_bits).  send fails
\* when the receiver of the channel is gone, and ? returns that error.
send_one(c, open, spacing) ==
    IF open[c.dest]
    THEN [c EXCEPT !.rest = Tail(@), !.elapsed = @ + spacing]
    ELSE [c EXCEPT !.pc = "returned", !.result = "Err: sending on a closed channel"]

\* The unit of the loop taken from the end of the buffer.
sent_unit_last(c) ==
    CableContext(c.rest[Len(c.rest)], c.source_port, c.target_port)

sent_unit(c) == CableContext(Head(c.rest), c.source_port, c.target_port)

(***************************************************************************)
(* data_link_layer/frame/tcp.rs: setup_frames; data_link_layer/mod.rs       *)
(***************************************************************************)
MAX_TCP_HEADER_LEN == 60
MAX_TCP_DATA_LEN == 65535 - MAX_TCP_HEADER_LEN

\* slice.chunks(n): pieces of n elements, the last one shorter; none of an
\* empty slice.
RECURSIVE chunks(_, _)
chunks(bs, n) ==
    IF Len(bs) = 0 THEN <<>>
    ELSE IF Len(bs) <= n THEN <<bs>>
    ELSE <<SubSeq(bs, 1, n)>> \o chunks(SubSeq(bs, n + 1, Len(bs)), n)

setup_frames(data, b) == build_all(b, chunks(data, MAX_TCP_DATA_LEN))

\* DataLinkLayer::send_bits, lines 51-54
link_builder(window_size, source_port, target_port) ==
    [TCPFrameBuilder_new EXCEPT !.source_port = Some(source_port),
                                !.target_port = Some(target_port),
                                !.window_size = Some(window_size)]

\* The number of windows of data.windows(window_size), for window_size > 0.
windows_count(len, window_size) ==
    IF len >= window_size THEN len - window_size + 1 ELSE 0

\* The frame sliding_window sends for the window of index next: window[0].
window_frame(frames, next) == frames[next + 1]

\* A lock that never blocks.
can_lock_always(holder) == TRUE

\* cable.lock(): the Mutex is free.
can_lock(holder) == holder = 0

IdleThread ==
    [pc |-> "idle", window_size |-> 0, source_port |-> 0, target_port |-> 0,
     data |-> <<>>, frames |-> <<>>, next |-> 0, handed |-> <<>>,
     call |-> IdleCall, result |-> ""]

(***************************************************************************)
(* The CRC codec: add, then check_and_remove of what add returned.         *)
(***************************************************************************)
CrcIdle ==
    /\ crc_pc = "idle"
    /\ generator = <<>>
    /\ crc_data = <<>>
    /\ crc_added = NotCalled
    /\ crc_received = <<>>
    /\ crc_checked = NotCalled

CrcInit ==
    /\ crc_pc = "start"
    /\ generator \in BitStrings(MaxGenLen)
    /\ crc_data \in BitStrings(MaxDataLen)
    /\ crc_added = NotCalled
    /\ crc_received = <<>>
    /\ crc_checked = NotCalled

\* let sent = add(&generator, data)
Add ==
    /\ crc_pc = "start"
    /\ crc_added' = add(generator, crc_data)
    /\ crc_pc' = IF crc_added'.tag = "Ok" THEN "added" ELSE "panicked"
    /\ UNCHANGED <<generator, crc_data, crc_received, crc_checked>>
    /\ UNCHANGED <<stuffVars, frameVars, cableVars, linkVars, corVars, bitsVars, sharedVars>>

\* check_and_remove(&generator, sent)
CheckAndRemove ==
    /\ crc_pc = "added"
    /\ crc_received' = crc_added.bits
    /\ crc_checked' = check_and_remove(generator, crc_added.bits)
    /\ crc_pc' = "checked"
    /\ UNCHANGED <<generator, crc_data, crc_added>>
    /\ UNCHANGED <<stuffVars, frameVars, cableVars, linkVars, corVars, bitsVars, sharedVars>>

\* check_and_remove(&generator, data) of a buffer add has not made
CheckReceived ==
    /\ crc_pc = "start"
    /\ crc_received' = crc_data
    /\ crc_checked' = check_and_remove(generator, crc_data)
    /\ crc_pc' = "received"
    /\ UNCHANGED <<generator, crc_data, crc_added>>
    /\ UNCHANGED <<stuffVars, frameVars, cableVars, linkVars, corVars, bitsVars, sharedVars>>

\* sent.flip_bit(index); check_and_remove(&generator, sent)
CheckFlipped(index) ==
    /\ crc_pc = "added" /\ index < Len(crc_added.bits)
    /\ LET sent == flip_bit(crc_added.bits, index).bits
       IN  /\ crc_received' = sent
           /\ crc_checked' = check_and_remove(generator, sent)
    /\ crc_pc' = "flipped"
    /\ UNCHANGED <<generator, crc_data, crc_added>>
    /\ UNCHANGED <<stuffVars, frameVars, cableVars, linkVars, corVars, bitsVars, sharedVars>>

StuffIdle ==
    /\ stuff_in = <<>>
    /\ stuffed = NotCalled
    /\ unstuffed = NotCalled
    /\ wire = NotCalled
    /\ wire_decoded = NotCalled

CrcNext ==
    \/ Add
    \/ CheckAndRemove
    \/ CheckReceived
    \/ \E index \in 0..(MaxDataLen + MaxGenLen) : CheckFlipped(index)

(***************************************************************************)
(* The framer: stuff_bits, prepare_bits and decode_bits of each result.    *)
(***************************************************************************)
StuffInit ==
    /\ stuff_in \in BitStrings(MaxStuffLen)
    /\ stuffed = NotCalled
    /\ unstuffed = NotCalled
    /\ wire = NotCalled
    /\ wire_decoded = NotCalled

\* let bs = stuff_bits(x)
StuffBits ==
    /\ stuffed = NotCalled
    /\ stuffed' = stuff_bits(stuff_in)
    /\ UNCHANGED <<stuff_in, unstuffed, wire, wire_decoded>>
    /\ UNCHANGED <<crcVars, frameVars, cableVars, linkVars, corVars, bitsVars, sharedVars>>

\* decode_bits(bs), on the result of stuff_bits
DecodeStuffed ==
    /\ stuffed.tag = "Ok"
    /\ unstuffed = NotCalled
    /\ unstuffed' = decode_bits(stuffed.bits)
    /\ UNCHANGED <<stuff_in, stuffed, wire, wire_decoded>>
    /\ UNCHANGED <<crcVars, frameVars, cableVars, linkVars, corVars, bitsVars, sharedVars>>

\* let w = prepare_bits(x)
PrepareBits ==
    /\ wire = NotCalled
    /\ wire' = prepare_bits(stuff_in)
    /\ UNCHANGED <<stuff_in, stuffed, unstuffed, wire_decoded>>
    /\ UNCHANGED <<crcVars, frameVars, cableVars, linkVars, corVars, bitsVars, sharedVars>>

\* decode_bits(w), on the wire buffer
DecodeWire ==
    /\ wire.tag = "Ok"
    /\ wire_decoded = NotCalled
    /\ wire_decoded' = decode_bits(wire.bits)
    /\ UNCHANGED <<stuff_in, stuffed, unstuffed, wire>>
    /\ UNCHANGED <<crcVars, frameVars, cableVars, linkVars, corVars, bitsVars, sharedVars>>

StuffNext == StuffBits \/ DecodeStuffed \/ PrepareBits \/ DecodeWire

(***************************************************************************)
(* The frame builder: the setters in any order, then build_all.            *)
(***************************************************************************)
\* The values the setters are given, and the chunks build_all is given.
SourcePorts == {0, 44800}
TargetPorts == {0, 255}
WindowSizes == {0, 65535}
AckNums == {U32(65535, 65535)}
DataOffsets == {0, 6}
Flags == {SYN + ACK}
UrgentPointers == {61675}
OptionWords == {[i \in 1..10 |-> IF i % 2 = 1 THEN U32(0, 1) ELSE U32(0, 0)]}
Chunks == {<<>>, <<Off>>, from_val(255, 8), from_val(65534, 16)}
ChunkLists == UNION {[1..n -> Chunks] : n \in 0..MaxChunks}

FrameIdle ==
    /\ builder = TCPFrameBuilder_new
    /\ data_points = <<>>
    /\ built = NotBuilt

FrameInit ==
    /\ builder = TCPFrameBuilder_new
    /\ data_points \in ChunkLists
    /\ built = NotBuilt

set_source_port ==
    /\ built = NotBuilt
    /\ \E p \in SourcePorts : builder' = [builder EXCEPT !.source_port = Some(p)]
    /\ UNCHANGED <<data_points, built>>
    /\ UNCHANGED <<crcVars, stuffVars, cableVars, linkVars, corVars, bitsVars, sharedVars>>

set_target_port ==
    /\ built = NotBuilt
    /\ \E p \in TargetPorts : builder' = [builder EXCEPT !.target_port = Some(p)]
    /\ UNCHANGED <<data_points, built>>
    /\ UNCHANGED <<crcVars, stuffVars, cableVars, linkVars, corVars, bitsVars, sharedVars>>

set_ack_num ==
    /\ built = NotBuilt
    /\ \E a \in AckNums : builder' = [builder EXCEPT !.ack_num = a]
    /\ UNCHANGED <<data_points, built>>
    /\ UNCHANGED <<crcVars, stuffVars, cableVars, linkVars, corVars, bitsVars, sharedVars>>

\* assert!(data_offset <= 0b0000_1111u8) holds of every value of DataOffsets.
set_data_offset ==
    /\ built = NotBuilt
    /\ \E d \in DataOffsets : builder' = [builder EXCEPT !.data_offset = d]
    /\ UNCHANGED <<data_points, built>>
    /\ UNCHANGED <<crcVars, stuffVars, cableVars, linkVars, corVars, bitsVars, sharedVars>>

\* flag_byte |= flag
set_flags ==
    /\ built = NotBuilt
    /\ \E f \in Flags : builder' = [builder EXCEPT !.flag_byte = BitOr8(@, f)]
    /\ UNCHANGED <<data_points, built>>
    /\ UNCHANGED <<crcVars, stuffVars, cableVars, linkVars, corVars, bitsVars, sharedVars>>

set_window_size ==
    /\ built = NotBuilt
    /\ \E w \in WindowSizes : builder' = [builder EXCEPT !.window_size = Some(w)]
    /\ UNCHANGED <<data_points, built>>
    /\ UNCHANGED <<crcVars, stuffVars, cableVars, linkVars, corVars, bitsVars, sharedVars>>

set_urgent_pointer ==
    /\ built = NotBuilt
    /\ \E u \in UrgentPointers : builder' = [builder EXCEPT !.urgent_pointer = u]
    /\ UNCHANGED <<data_points, built>>
    /\ UNCHANGED <<crcVars, stuffVars, cableVars, linkVars, corVars, bitsVars, sharedVars>>

set_options ==
    /\ built = NotBuilt
    /\ \E o \in OptionWords : builder' = [builder EXCEPT !.options = o]
    /\ UNCHANGED <<data_points, built>>
    /\ UNCHANGED <<crcVars, stuffVars, cableVars, linkVars, corVars, bitsVars, sharedVars>>

\* builder.build_all(&data_points); the builder is consumed.
BuildAll ==
    /\ built = NotBuilt
    /\ built' = build_all(builder, data_points)
    /\ UNCHANGED <<builder, data_points>>
    /\ UNCHANGED <<crcVars, stuffVars, cableVars, linkVars, corVars, bitsVars, sharedVars>>

FrameNext ==
    \/ set_source_port \/ set_target_port \/ set_ack_num \/ set_data_offset
    \/ set_flags \/ set_window_size \/ set_urgent_pointer \/ set_options
    \/ BuildAll

(***************************************************************************)
(* The cable: two nodes joined by a cable, a third node beside them, and   *)
(* calls of Cable::send_bits one after the other.                          *)
(***************************************************************************)
MacSeeds == {0, 6969}
CorruptionTypes == {NoCorruption, OneBitFlip(XorShift_new(0)), OneBitFlip(XorShift_new(6969))}
CablePorts == {<<30, 40>>}
\* latency in ms and throughput_ms, as given to create_cable
CableTimings == {<<0, 1>>, <<10, 3>>}
Nodes == 1..3

CableIdle ==
    /\ node_mac = [n \in Nodes |-> nth_addr(0, n)]
    /\ node1_mac = node_mac[1] /\ node2_mac = node_mac[2]
    /\ latency = 0 /\ time_between_bits = 0
    /\ corruption_type = NoCorruption
    /\ queue = [n \in Nodes |-> <<>>]
    /\ receiver_open = [n \in Nodes |-> TRUE]
    /\ call = IdleCall
    /\ queue_at_call = queue
    /\ corruption_at_call = corruption_type

\* create_cable: the nodes take their addresses from one MacAddressGenerator,
\* Cable::new copies the addresses of its two nodes and computes the spacing.
CableInit ==
    /\ \E seed \in MacSeeds : node_mac = [n \in Nodes |-> nth_addr(seed, n)]
    /\ node1_mac = node_mac[1] /\ node2_mac = node_mac[2]
    /\ \E t \in CableTimings :
          /\ latency = from_millis(t[1])
          /\ time_between_bits = time_between_bits_of(t[2])
    /\ corruption_type \in CorruptionTypes
    /\ queue = [n \in Nodes |-> <<>>]
    /\ receiver_open = [n \in Nodes |-> TRUE]
    /\ call = IdleCall
    /\ queue_at_call = queue
    /\ corruption_at_call = corruption_type

\* Node sender calls send_bits with its own address: lines 81-87.
SendBits ==
    /\ call.pc \in {"idle", "returned"}
    /\ \E sender \in Nodes, ports \in CablePorts, data \in BitStrings(MaxCableLen) :
          /\ Len(queue[1]) + Len(queue[2]) + Len(data) <= MaxQueued
          /\ call' = enter_call(node1_mac, node2_mac, sender, node_mac[sender],
                                ports[1], ports[2], data)
    /\ queue_at_call' = queue
    /\ corruption_at_call' = corruption_type
    /\ UNCHANGED <<cableFixed, corruption_type, queue, receiver_open>>
    /\ UNCHANGED <<crcVars, stuffVars, frameVars, linkVars, corVars, bitsVars, sharedVars>>

\* sleep(latency) and corrupt_borrow, lines 89-91.
Corrupt ==
    /\ call.pc = "latency"
    /\ LET r == after_latency(call, corruption_type, latency)
       IN  call' = r.call /\ corruption_type' = r.corruption
    /\ UNCHANGED <<cableFixed, queue, receiver_open, queue_at_call, corruption_at_call>>
    /\ UNCHANGED <<crcVars, stuffVars, frameVars, linkVars, corVars, bitsVars, sharedVars>>

\* One turn of the loop of lines 93-100.
SendBit ==
    /\ call.pc = "sending" /\ Len(call.rest) > 0
    /\ queue' = IF receiver_open[call.dest]
                THEN [queue EXCEPT ![call.dest] = Append(@, sent_unit(call))]
                ELSE queue
    /\ call' = send_one(call, receiver_open, time_between_bits)
    /\ UNCHANGED <<cableFixed, corruption_type, receiver_open, queue_at_call,
                   corruption_at_call>>
    /\ UNCHANGED <<crcVars, stuffVars, frameVars, linkVars, corVars, bitsVars, sharedVars>>

\* Ok(()) of line 102.
ReturnOk ==
    /\ call.pc = "sending" /\ Len(call.rest) = 0
    /\ call' = [call EXCEPT !.pc = "returned", !.result = "Ok"]
    /\ UNCHANGED <<cableFixed, corruption_type, queue, receiver_open,
                   queue_at_call, corruption_at_call>>
    /\ UNCHANGED <<crcVars, stuffVars, frameVars, linkVars, corVars, bitsVars, sharedVars>>

CableNext == SendBits \/ Corrupt \/ SendBit \/ ReturnOk

(***************************************************************************)
(* The data link layer: two threads of node 1 that share the cable to      *)
(* node 2 behind a Mutex and call DataLinkLayer::send_bits once each,      *)
(* while node 2 may go away.                                               *)
(***************************************************************************)
Threads == 1..2
ThreadPorts == <<(<<44800, 253>>), (<<253, 44800>>)>>
\* window_size and outbound buffer
LinkInputs == {<<1, from_val(1, 16)>>, <<2, from_val(0, 16)>>, <<1, <<Off>>>>, <<1, <<>>>>}

LinkIdle ==
    /\ cable_lock = 0
    /\ thread = [t \in Threads |-> IdleThread]

LinkInit ==
    /\ node_mac = [n \in Nodes |-> nth_addr(6969, n)]
    /\ node1_mac = node_mac[1] /\ node2_mac = node_mac[2]
    /\ latency = from_millis(0) /\ time_between_bits = time_between_bits_of(1)
    /\ corruption_type = OneBitFlip(XorShift_new(6969))
    /\ queue = [n \in Nodes |-> <<>>]
    /\ receiver_open = [n \in Nodes |-> TRUE]
    /\ call = IdleCall
    /\ queue_at_call = queue
    /\ corruption_at_call = corruption_type
    /\ LinkIdle

\* DataLinkLayer::send_bits up to the loop of sliding_window: the builder,
\* setup_frames, data.windows(window_size).
LinkSendBits(t) ==
    /\ thread[t].pc = "idle"
    /\ \E inp \in LinkInputs :
          LET w == inp[1]
              sp == ThreadPorts[t][1]
              tp == ThreadPorts[t][2]
              r == setup_frames(inp[2], link_builder(w, sp, tp))
              th == [thread[t] EXCEPT !.window_size = w, !.source_port = sp,
                                      !.target_port = tp, !.data = inp[2]]
          IN  thread' = [thread EXCEPT ![t] =
                IF r.tag # "Ok"
                THEN [th EXCEPT !.pc = "panicked", !.result = r.msg]
                ELSE IF w = 0
                THEN [th EXCEPT !.pc = "panicked",
                                !.result = "window size must be non-zero"]
                ELSE [th EXCEPT !.pc = "windows",
                                !.frames = [i \in 1..Len(r.frames) |->
                                              r.frames[i].output_bitstring]]]
    /\ UNCHANGED <<cable_lock, cableVars>>
    /\ UNCHANGED <<crcVars, stuffVars, frameVars, corVars, bitsVars, sharedVars>>

\* The loop is over: Ok(()) of line 88.
LinkDone(t) ==
    /\ thread[t].pc = "windows"
    /\ thread[t].next >= windows_count(Len(thread[t].frames), thread[t].window_size)
    /\ thread' = [thread EXCEPT ![t].pc = "done", ![t].result = "Ok"]
    /\ UNCHANGED <<cable_lock, cableVars>>
    /\ UNCHANGED <<crcVars, stuffVars, frameVars, corVars, bitsVars, sharedVars>>

\* Lines 80-85: prepare_bits of window[0], the lock, and the entry of
\* Cable::send_bits with node 1's address.
LinkLock(t) ==
    /\ thread[t].pc = "windows"
    /\ thread[t].next < windows_count(Len(thread[t].frames), thread[t].window_size)
    /\ can_lock(cable_lock)
    /\ LET p == prepare_bits(window_frame(thread[t].frames, thread[t].next))
       IN  IF p.tag # "Ok"
           THEN /\ thread' = [thread EXCEPT ![t].pc = "panicked", ![t].result = p.msg]
                /\ UNCHANGED cable_lock
           ELSE /\ cable_lock' = t
                /\ thread' = [thread EXCEPT
                      ![t].pc = "locked",
                      ![t].handed = Append(@, p.bits),
                      ![t].call = enter_call(node1_mac, node2_mac, 1, node_mac[1],
                                             thread[t].source_port,
                                             thread[t].target_port, p.bits)]
    /\ UNCHANGED cableVars
    /\ UNCHANGED <<crcVars, stuffVars, frameVars, corVars, bitsVars, sharedVars>>

LinkCorrupt(t) ==
    /\ thread[t].pc = "locked" /\ thread[t].call.pc = "latency"
    /\ LET r == after_latency(thread[t].call, corruption_type, latency)
       IN  /\ thread' = [thread EXCEPT ![t].call = r.call]
           /\ corruption_type' = r.corruption
    /\ UNCHANGED <<cable_lock, cableFixed, queue, receiver_open, call,
                   queue_at_call, corruption_at_call>>
    /\ UNCHANGED <<crcVars, stuffVars, frameVars, corVars, bitsVars, sharedVars>>

LinkSendBit(t) ==
    /\ thread[t].pc = "locked" /\ thread[t].call.pc = "sending"
    /\ Len(thread[t].call.rest) > 0
    /\ queue' = IF receiver_open[thread[t].call.dest]
                THEN [queue EXCEPT ![thread[t].call.dest] =
                        Append(@, sent_unit(thread[t].call))]
                ELSE queue
    /\ thread' = [thread EXCEPT ![t].call =
                    send_one(@, receiver_open, time_between_bits)]
    /\ UNCHANGED <<cable_lock, cableFixed, corruption_type, receiver_open, call,
                   queue_at_call, corruption_at_call>>
    /\ UNCHANGED <<crcVars, stuffVars, frameVars, corVars, bitsVars, sharedVars>>

\* Cable::send_bits returns Ok(()), the guard is dropped, the loop goes on.
LinkReturnOk(t) ==
    /\ thread[t].pc = "locked" /\ thread[t].call.pc = "sending"
    /\ Len(thread[t].call.rest) = 0
    /\ thread' = [thread EXCEPT ![t].call.pc = "returned", ![t].call.result = "Ok",
                                ![t].pc = "windows", ![t].next = @ + 1]
    /\ cable_lock' = 0
    /\ UNCHANGED cableVars
    /\ UNCHANGED <<crcVars, stuffVars, frameVars, corVars, bitsVars, sharedVars>>

\* Cable::send_bits has returned an error: the guard is dropped and ? returns
\* the error from sliding_window and from DataLinkLayer::send_bits.
LinkReturnErr(t) ==
    /\ thread[t].pc = "locked" /\ thread[t].call.pc = "returned"
    /\ thread' = [thread EXCEPT ![t].pc = "done", ![t].result = thread[t].call.result]
    /\ cable_lock' = 0
    /\ UNCHANGED cableVars
    /\ UNCHANGED <<crcVars, stuffVars, frameVars, corVars, bitsVars, sharedVars>>

\* Node 2 is dropped, and its Receiver with it.
DropReceiver ==
    /\ receiver_open[2]
    /\ receiver_open' = [receiver_open EXCEPT ![2] = FALSE]
    /\ UNCHANGED <<cableFixed, corruption_type, queue, call, queue_at_call,
                   corruption_at_call, linkVars>>
    /\ UNCHANGED <<crcVars, stuffVars, frameVars, corVars, bitsVars, sharedVars>>

LinkNext ==
    \/ \E t \in Threads :
          \/ LinkSendBits(t) \/ LinkDone(t) \/ LinkLock(t) \/ LinkCorrupt(t)
          \/ LinkSendBit(t) \/ LinkReturnOk(t) \/ LinkReturnErr(t)
    \/ DropReceiver

(***************************************************************************)
(* The specifications: one per component, the others idle.                 *)
(***************************************************************************)
(***************************************************************************)
(* Corruption: two values constructed from the same variant, seed and      *)
(* chance; each buffer is given to the first and then to the second.  The  *)
(* wall clock moves on with every call.                                    *)
(***************************************************************************)
CorSeeds == {0, 69, 6969}
CorChances == {0, 50, 100}
\* chances a u8 can hold that the strategies do not accept
BadChances == {101, 128}
Corruptions ==
    {NoCorruption}
    \cup {OneBitFlip(XorShift_new(s)) : s \in CorSeeds}
    \cup {BurstFlip(XorShift_new(s)) : s \in CorSeeds}
    \cup {Random(XorShift_new(s)) : s \in CorSeeds}
    \cup {RandomCorruption(XorShift_new(s)) : s \in CorSeeds}
    \cup {MultiBitFlipOdd(XorShift_new(s), c) : s \in CorSeeds, c \in CorChances}
    \cup {MultiBitFlipEven(XorShift_new(s), c) : s \in CorSeeds, c \in CorChances}
    \cup {MultiBitFlipOdd(XorShift_new(s), c) : s \in CorSeeds, c \in BadChances}
    \cup {MultiBitFlipEven(XorShift_new(s), c) : s \in CorSeeds, c \in BadChances}
CorInputs == BitStrings(MaxCorBits) \ {<<>>}

CorIdle ==
    /\ cor_pc = "idle"
    /\ cor_a = NoCorruption /\ cor_b = NoCorruption /\ cor_a_before = NoCorruption
    /\ cor_data = <<>> /\ cor_out_a = NotCalled /\ cor_out_b = NotCalled
    /\ cor_bits = 0 /\ now = 0

CorInit ==
    /\ cor_pc = "a"
    /\ cor_a \in Corruptions /\ cor_b = cor_a /\ cor_a_before = cor_a
    /\ cor_data = <<>> /\ cor_out_a = NotCalled /\ cor_out_b = NotCalled
    /\ cor_bits = 0 /\ now = 0

\* a.corrupt_borrow(data)
CorruptA(data) ==
    /\ cor_pc = "a" /\ cor_bits + Len(data) <= MaxCorBits
    /\ LET r == corrupt_borrow(cor_a, data)
       IN  /\ cor_out_a' = r.res /\ cor_a' = r.after
           /\ cor_pc' = IF r.res.tag = "Panic" THEN "panicked" ELSE "b"
    /\ cor_a_before' = cor_a /\ cor_data' = data
    /\ cor_bits' = cor_bits + Len(data) /\ now' = now + 1
    /\ UNCHANGED <<cor_b, cor_out_b>>
    /\ UNCHANGED <<crcVars, stuffVars, frameVars, cableVars, linkVars, bitsVars, sharedVars>>

\* b.corrupt_borrow(data), data being the buffer a was given last
CorruptB ==
    /\ cor_pc = "b"
    /\ LET r == corrupt_borrow(cor_b, cor_data)
       IN  /\ cor_out_b' = r.res /\ cor_b' = r.after
           /\ cor_pc' = IF r.res.tag = "Panic" THEN "panicked" ELSE "a"
    /\ now' = now + 1
    /\ UNCHANGED <<cor_a, cor_a_before, cor_data, cor_out_a, cor_bits>>
    /\ UNCHANGED <<crcVars, stuffVars, frameVars, cableVars, linkVars, bitsVars, sharedVars>>

CorNext == (\E data \in CorInputs \cup {<<>>} : CorruptA(data)) \/ CorruptB

(***************************************************************************)
(* BurstFlip on buffers long enough for the length of the burst to be      *)
(* drawn: one value, given one buffer after the other.                     *)
(***************************************************************************)
BurstLens == (1..MaxBurstLen) \cup {32, 40}
\* of each length the buffer of Off bits and the one of alternating bits
BurstInputs ==
    {[i \in 1..n |-> Off] : n \in BurstLens}
    \cup {[i \in 1..n |-> i % 2] : n \in BurstLens}

BurstInit ==
    /\ cor_pc = "a"
    /\ cor_a \in {BurstFlip(XorShift_new(s)) : s \in CorSeeds}
    /\ cor_b = cor_a /\ cor_a_before = cor_a
    /\ cor_data = <<>> /\ cor_out_a = NotCalled /\ cor_out_b = NotCalled
    /\ cor_bits = 0 /\ now = 0

\* a.corrupt_borrow(data)
Burst(data) ==
    /\ cor_pc = "a" /\ now < MaxBurstCalls
    /\ LET r == corrupt_borrow(cor_a, data)
       IN  /\ cor_out_a' = r.res /\ cor_a' = r.after
           /\ cor_pc' = IF r.res.tag = "Panic" THEN "panicked" ELSE "a"
    /\ cor_a_before' = cor_a /\ cor_data' = data
    /\ cor_bits' = cor_bits + Len(data) /\ now' = now + 1
    /\ UNCHANGED <<cor_b, cor_out_b>>
    /\ UNCHANGED <<crcVars, stuffVars, frameVars, cableVars, linkVars, bitsVars, sharedVars>>

BurstNext == \E data \in BurstInputs : Burst(data)

(***************************************************************************)
(* BitString: one operation on one buffer.                                 *)
(***************************************************************************)
\* u8 and u16; the wider words are made by the same macros
WordWidths == {8, 16}
WordValues(bit_size) ==
    {0, 1, Pow2(bit_size - 1), Pow2(bit_size) - 1}
    \cup (IF bit_size = 8 THEN {202} ELSE {41055, 43690})
\* every short buffer, and BitString::from(u64::MAX) of get_and_set1
BitsInputs == BitStrings(MaxBitsLen) \cup {[i \in 1..64 |-> On]}

NoOp == [name |-> "", bit_size |-> 0, index |-> 0, data |-> 0, amount |-> 0]
NoOut == [tag |-> "NotCalled", bits |-> <<>>, words |-> <<>>, msg |-> ""]

BitsIdle ==
    /\ bits_pc = "idle" /\ bits_in = <<>> /\ bits_op = NoOp /\ bits_out = NoOut

BitsInit ==
    /\ bits_pc = "start" /\ bits_in \in BitsInputs
    /\ bits_op = NoOp /\ bits_out = NoOut

\* bs.set_$t(index, data); bs.get_$t(index)
SetGet(bit_size, index, data) ==
    /\ bits_pc = "start" /\ index + bit_size <= Len(bits_in)
    /\ bits_op' = [NoOp EXCEPT !.name = "set", !.bit_size = bit_size,
                               !.index = index, !.data = data]
    /\ LET after == set_type(bits_in, index, data, bit_size)
       IN  bits_out' = [tag |-> "Ok", bits |-> after,
                        words |-> <<get_type(after, index, bit_size)>>, msg |-> ""]
    /\ bits_pc' = "done"
    /\ UNCHANGED bits_in
    /\ UNCHANGED <<crcVars, stuffVars, frameVars, cableVars, linkVars, corVars, sharedVars>>

\* bs.as_vec_with_padding_$t(), as_vec_exact_$t(), try_as_vec_exact_$t()
AsVec(name, bit_size) ==
    /\ bits_pc = "start"
    /\ bits_op' = [NoOp EXCEPT !.name = name, !.bit_size = bit_size]
    /\ bits_out' = CASE name = "as_vec_with_padding" ->
                            WordsOk(as_vec_with_padding(bits_in, bit_size))
                     [] name = "as_vec_exact" -> as_vec_exact(bits_in, bit_size)
                     [] name = "try_as_vec_exact" -> try_as_vec_exact(bits_in, bit_size)
    /\ bits_pc' = IF bits_out'.tag = "Panic" THEN "panicked" ELSE "done"
    /\ UNCHANGED bits_in
    /\ UNCHANGED <<crcVars, stuffVars, frameVars, cableVars, linkVars, corVars, sharedVars>>

\* bs >>= amount
ShrAssign(amount) ==
    /\ bits_pc = "start"
    /\ bits_op' = [NoOp EXCEPT !.name = "shr", !.amount = amount]
    /\ bits_out' = [NoOut EXCEPT !.tag = "Ok", !.bits = shr_assign(bits_in, amount)]
    /\ bits_pc' = "done"
    /\ UNCHANGED bits_in
    /\ UNCHANGED <<crcVars, stuffVars, frameVars, cableVars, linkVars, corVars, sharedVars>>

\* bs <<= amount
ShlAssign(amount) ==
    /\ bits_pc = "start"
    /\ bits_op' = [NoOp EXCEPT !.name = "shl", !.amount = amount]
    /\ bits_out' = [NoOut EXCEPT !.tag = "Ok", !.bits = shl_assign(bits_in, amount)]
    /\ bits_pc' = "done"
    /\ UNCHANGED bits_in
    /\ UNCHANGED <<crcVars, stuffVars, frameVars, cableVars, linkVars, corVars, sharedVars>>

BitsNext ==
    \/ \E bit_size \in WordWidths, index \in 0..56 :
          \E data \in WordValues(bit_size) : SetGet(bit_size, index, data)
    \/ \E bit_size \in WordWidths,
          name \in {"as_vec_with_padding", "as_vec_exact", "try_as_vec_exact"} :
          AsVec(name, bit_size)
    \/ \E amount \in 0..MaxShift : ShrAssign(amount)
    \/ \E amount \in 0..MaxShift : ShlAssign(amount)

(***************************************************************************)
(* Two cables that end at node 2: between nodes 1 and 2 and between nodes  *)
(* 3 and 2.  Each holds a clone of node 2's transmitter; a thread of its   *)
(* own calls send_bits on each.                                            *)
(***************************************************************************)
CableIds == 1..2
\* the nodes a cable was made from, first and second
CableEnds == <<(<<1, 2>>), (<<3, 2>>)>>
SharedCorruption == <<OneBitFlip(XorShift_new(6969)), NoCorruption>>
SharedPorts == <<{<<30, 40>>}, {<<30, 40>>, <<31, 41>>}>>

SharedIdle == cables = <<>>

\* Cable::new for each cable, the nodes from one MacAddressGenerator.
SharedInit ==
    /\ node_mac = [n \in Nodes |-> nth_addr(6969, n)]
    /\ node1_mac = node_mac[1] /\ node2_mac = node_mac[2]
    /\ latency = from_millis(0) /\ time_between_bits = time_between_bits_of(1)
    /\ corruption_type = NoCorruption
    /\ queue = [n \in Nodes |-> <<>>]
    /\ receiver_open = [n \in Nodes |-> TRUE]
    /\ call = IdleCall
    /\ queue_at_call = queue
    /\ corruption_at_call = corruption_type
    /\ cables = [c \in CableIds |->
                   [node1 |-> CableEnds[c][1], node2 |-> CableEnds[c][2],
                    node1_mac |-> node_mac[CableEnds[c][1]],
                    node2_mac |-> node_mac[CableEnds[c][2]],
                    corruption_type |-> SharedCorruption[c],
                    call |-> IdleCall]]

\* The node whose transmitter the call of cable c sends on.
DestNode(c) ==
    IF cables[c].call.dest = 1 THEN cables[c].node1 ELSE cables[c].node2

\* cable.send_bits(mac, source_port, target_port, data), to the loop
SharedSendBits(c) ==
    /\ cables[c].call.pc = "idle"
    /\ \E sender \in {cables[c].node1, cables[c].node2}, ports \in SharedPorts[c],
          data \in BitStrings(MaxSharedLen) :
          LET entered == enter_call(cables[c].node1_mac, cables[c].node2_mac,
                                    sender, node_mac[sender], ports[1], ports[2],
                                    data)
              r == after_latency(entered, cables[c].corruption_type, latency)
          IN  cables' = [cables EXCEPT ![c].call = r.call,
                                       ![c].corruption_type = r.corruption]
    /\ UNCHANGED <<cableVars>>
    /\ UNCHANGED <<crcVars, stuffVars, frameVars, linkVars, corVars, bitsVars>>

\* One turn of the loop of lines 93-100 on cable c.
SharedSendBit(c) ==
    /\ cables[c].call.pc = "sending" /\ Len(cables[c].call.rest) > 0
    /\ queue' = [queue EXCEPT ![DestNode(c)] = Append(@, sent_unit(cables[c].call))]
    /\ cables' = [cables EXCEPT ![c].call =
                    [@ EXCEPT !.rest = Tail(@), !.elapsed = @ + time_between_bits]]
    /\ UNCHANGED <<cableFixed, corruption_type, receiver_open, call, queue_at_call,
                   corruption_at_call>>
    /\ UNCHANGED <<crcVars, stuffVars, frameVars, linkVars, corVars, bitsVars>>

\* Ok(()), line 102.
SharedReturnOk(c) ==
    /\ cables[c].call.pc = "sending" /\ Len(cables[c].call.rest) = 0
    /\ cables' = [cables EXCEPT ![c].call.pc = "returned", ![c].call.result = "Ok"]
    /\ UNCHANGED <<cableVars>>
    /\ UNCHANGED <<crcVars, stuffVars, frameVars, linkVars, corVars, bitsVars>>

SharedNext ==
    \E c \in CableIds : SharedSendBits(c) \/ SharedSendBit(c) \/ SharedReturnOk(c)

InitCrc == CrcInit /\ StuffIdle /\ FrameIdle /\ CableIdle /\ LinkIdle /\ CorIdle /\ BitsIdle /\ SharedIdle

SpecCrc == InitCrc /\ [][CrcNext]_vars

InitStuff == CrcIdle /\ StuffInit /\ FrameIdle /\ CableIdle /\ LinkIdle /\ CorIdle /\ BitsIdle /\ SharedIdle

SpecStuff == InitStuff /\ [][StuffNext]_vars

InitFrame == CrcIdle /\ StuffIdle /\ FrameInit /\ CableIdle /\ LinkIdle /\ CorIdle /\ BitsIdle /\ SharedIdle

SpecFrame == InitFrame /\ [][FrameNext]_vars

InitCable == CrcIdle /\ StuffIdle /\ FrameIdle /\ CableInit /\ LinkIdle /\ CorIdle /\ BitsIdle /\ SharedIdle

SpecCable == InitCable /\ [][CableNext]_vars

InitLink == CrcIdle /\ StuffIdle /\ FrameIdle /\ LinkInit /\ CorIdle /\ BitsIdle /\ SharedIdle

SpecLink == InitLink /\ [][LinkNext]_vars

InitCorruption == CrcIdle /\ StuffIdle /\ FrameIdle /\ CableIdle /\ LinkIdle /\ CorInit /\ BitsIdle /\ SharedIdle

SpecCorruption == InitCorruption /\ [][CorNext]_vars

InitBurst == CrcIdle /\ StuffIdle /\ FrameIdle /\ CableIdle /\ LinkIdle /\ BurstInit /\ BitsIdle /\ SharedIdle

SpecBurst == InitBurst /\ [][BurstNext]_vars

InitBits == CrcIdle /\ StuffIdle /\ FrameIdle /\ CableIdle /\ LinkIdle /\ CorIdle /\ BitsInit /\ SharedIdle

SpecBits == InitBits /\ [][BitsNext]_vars

InitShared == CrcIdle /\ StuffIdle /\ FrameIdle /\ SharedInit /\ LinkIdle /\ CorIdle /\ BitsIdle

SpecShared == InitShared /\ [][SharedNext]_vars

(***************************************************************************)
(* C1: CRC round trip.  For a non-empty generator whose first bit is On   *)
(* and non-empty data d, add completes and check_and_remove of its result  *)
(* returns Ok(d).                                                          *)
(***************************************************************************)
ValidCrcInput == Len(generator) > 0 /\ generator[1] = On /\ Len(crc_data) > 0

CrcRoundTrip ==
    ValidCrcInput =>
        /\ crc_pc # "panicked"
        /\ crc_pc = "checked" => crc_checked = Ok(crc_data)

CrcRoundTripWitness ==
    /\ crc_pc = "checked"
    /\ ValidCrcInput
    /\ Len(generator) = 3
    /\ SumBits(SubSeq(crc_added.bits, Len(crc_data) + 1, Len(crc_added.bits))) > 0
    /\ crc_checked = Ok(crc_data)

(***************************************************************************)
(* C2: stuffing round trip.  decode_bits(stuff_bits(x)) = x for every x.   *)
(***************************************************************************)
StuffRoundTrip ==
    /\ stuffed # NotCalled => stuffed.tag = "Ok"
    /\ unstuffed # NotCalled => unstuffed = Ok(stuff_in)

(***************************************************************************)
(* C3: stuffing rule.  The output of stuff_bits is the input with one Off  *)
(* bit inserted after every run of five consecutive On bits, the run       *)
(* counter starting again after each inserted bit.                         *)
(***************************************************************************)
RECURSIVE ReferenceStuff(_, _)
ReferenceStuff(bs, count) ==
    IF Len(bs) = 0 THEN <<>>
    ELSE IF bs[1] = Off THEN <<Off>> \o ReferenceStuff(Tail(bs), 0)
    ELSE IF count + 1 = 5 THEN <<On, Off>> \o ReferenceStuff(Tail(bs), 0)
    ELSE <<On>> \o ReferenceStuff(Tail(bs), count + 1)

StuffingRule ==
    stuffed # NotCalled => stuffed = Ok(ReferenceStuff(stuff_in, 0))

(***************************************************************************)
(* C4: flag wrapping.  For every x, the empty buffer included,             *)
(* prepare_bits(x) returns flag octet, stuffed payload, flag octet.        *)
(***************************************************************************)
FlagBits == from_val(FLAG_SEQUECE, 8)

FlagWrapping ==
    wire # NotCalled =>
        /\ wire.tag = "Ok"
        /\ Len(wire.bits) >= 16
        /\ SubSeq(wire.bits, 1, 8) = FlagBits
        /\ SubSeq(wire.bits, Len(wire.bits) - 7, Len(wire.bits)) = FlagBits
        /\ SubSeq(wire.bits, 9, Len(wire.bits) - 8) = stuff_bits(stuff_in).bits

(***************************************************************************)
(* C5: wire-format inverse.  For every x that does not contain 01111110,   *)
(* decode_bits(prepare_bits(x)) strips the flags and the stuffed bits and  *)
(* returns x.                                                              *)
(***************************************************************************)
ContainsFlag(bs) ==
    \E i \in 1..(Len(bs) - 7) : SubSeq(bs, i, i + 7) = FlagBits

WireInverse ==
    (wire_decoded # NotCalled /\ ~ContainsFlag(stuff_in)) =>
        wire_decoded = Ok(stuff_in)


(***************************************************************************)
(* Frames: what the claims read of a frame and of its serialized buffer.   *)
(***************************************************************************)
\* The n bits of bs from bit offset off on, read most significant bit first.
RECURSIVE WordAt(_, _, _)
WordAt(bs, off, n) ==
    IF n = 0 THEN 0 ELSE 2 * WordAt(bs, off, n - 1) + bs[off + n]

U32At(bs, off) == U32(WordAt(bs, off, 16), WordAt(bs, off + 16, 16))

MandatorySet ==
    builder.source_port # None /\ builder.target_port # None
    /\ builder.window_size # None

OptionCount(f) == IF f.data_offset >= 5 THEN f.data_offset - 5 ELSE 0

PayloadOffset(f) == 160 + 32 * OptionCount(f)

\* The 16-bit words of bs, the checksum field (word 9) taken as zero, summed
\* with end-around carry.
RECURSIVE FoldedSum(_, _, _)
FoldedSum(bs, j, acc) ==
    IF 16 * j >= Len(bs) THEN acc
    ELSE LET w == IF j = 8 THEN 0 ELSE WordAt(bs, 16 * j, 16)
             t == acc + w
         IN  FoldedSum(bs, j + 1, IF t > 65535 THEN t - 65535 ELSE t)

(***************************************************************************)
(* C6: frame checksum.  With the mandatory fields set, build_all completes *)
(* for every payload, and in every frame the 16-bit word at bit offset 128 *)
(* is the checksum field, which is the one's complement of the folded sum  *)
(* of the buffer's 16-bit words with the checksum field taken as zero.     *)
(***************************************************************************)
FrameChecksum ==
    (built # NotBuilt /\ MandatorySet) =>
        /\ built.tag = "Ok"
        /\ \A i \in 1..Len(built.frames) :
              LET f == built.frames[i]
              IN  /\ Len(f.output_bitstring) >= 144
                  /\ Len(f.output_bitstring) % 16 = 0
                  /\ WordAt(f.output_bitstring, 128, 16) = f.checksum
                  /\ f.checksum = 65535 - FoldedSum(f.output_bitstring, 0, 0)

(***************************************************************************)
(* C7: frame layout.  In every frame build_all returns, the fields sit     *)
(* most significant bit first at source port 0, destination port 16,       *)
(* sequence number 32, ack number 64, header length in the high nibble of  *)
(* the byte at 96, flags 104, window 112, checksum 128, urgent pointer     *)
(* 144, then header length - 5 option words from 160 (none below 5), then  *)
(* the payload.                                                            *)
(***************************************************************************)
LayoutOf(f) ==
    LET bs == f.output_bitstring
    IN  /\ Len(bs) >= PayloadOffset(f) + Len(f.data)
        /\ WordAt(bs, 0, 16) = f.source_port
        /\ WordAt(bs, 16, 16) = f.target_port
        /\ U32At(bs, 32) = f.sequence_num
        /\ U32At(bs, 64) = f.ack_num
        /\ WordAt(bs, 96, 4) = f.data_offset
        /\ WordAt(bs, 100, 4) = 0
        /\ WordAt(bs, 104, 8) = f.flag_byte
        /\ WordAt(bs, 112, 16) = f.window_size
        /\ WordAt(bs, 128, 16) = f.checksum
        /\ WordAt(bs, 144, 16) = f.urgent_pointer
        /\ \A k \in 1..OptionCount(f) :
              U32At(bs, 160 + 32 * (k - 1)) = f.options[k]
        /\ SubSeq(bs, PayloadOffset(f) + 1, PayloadOffset(f) + Len(f.data)) = f.data

FieldsOf(f, b) ==
    /\ f.source_port = b.source_port[1]
    /\ f.target_port = b.target_port[1]
    /\ f.ack_num = b.ack_num
    /\ f.data_offset = b.data_offset
    /\ f.flag_byte = b.flag_byte
    /\ f.window_size = b.window_size[1]
    /\ f.urgent_pointer = b.urgent_pointer
    /\ f.options = b.options

FrameLayout ==
    built.tag = "Ok" =>
        \A i \in 1..Len(built.frames) :
            /\ FieldsOf(built.frames[i], builder)
            /\ built.frames[i].data = data_points[i]
            /\ LayoutOf(built.frames[i])

\* A frame with every field set, one option word and a payload.
FrameLayoutWitness ==
    /\ built.tag = "Ok"
    /\ \E i \in 1..Len(built.frames) :
          LET f == built.frames[i]
          IN  /\ f.source_port # 0 /\ f.target_port # 0
              /\ f.source_port # f.target_port
              /\ f.ack_num # U32(0, 0) /\ f.flag_byte # 0
              /\ f.window_size # 0 /\ f.urgent_pointer # 0
              /\ f.data_offset = 6 /\ f.options[1] # U32(0, 0)
              /\ Len(f.data) > 0 /\ SumBits(f.data) > 0

(***************************************************************************)
(* C8: frame padding.  For every payload length in bits, build does not    *)
(* fail its padding check and returns a buffer whose length is the         *)
(* smallest multiple of 16 that holds header, options and payload, every   *)
(* bit after the payload Off.                                              *)
(***************************************************************************)
FramePadding ==
    built # NotBuilt =>
        /\ built.msg # "The full bitstring wasn't padded correctly"
        /\ \A i \in 1..Len(built.frames) :
              LET f == built.frames[i]
                  n == PayloadOffset(f) + Len(f.data)
                  bs == f.output_bitstring
              IN  /\ Len(bs) = 16 * ((n + 15) \div 16)
                  /\ \A k \in (n + 1)..Len(bs) : bs[k] = Off

(***************************************************************************)
(* C9: sequence numbering.  build_all on N chunks returns exactly N frames *)
(* in chunk order; frame i (from 0) has sequence number i in its field and *)
(* in bits 32..63 of its buffer and chunk i as payload, and the other      *)
(* configured fields are those of the builder in every frame.              *)
(***************************************************************************)
SequenceNumbering ==
    (built # NotBuilt /\ MandatorySet) =>
        /\ built.tag = "Ok"
        /\ Len(built.frames) = Len(data_points)
        /\ \A i \in 1..Len(built.frames) :
              LET f == built.frames[i]
              IN  /\ f.sequence_num = U32(0, i - 1)
                  /\ U32At(f.output_bitstring, 32) = U32(0, i - 1)
                  /\ f.data = data_points[i]
                  /\ FieldsOf(f, builder)

(***************************************************************************)
(* The cable: what a returned call has put on the queues.                  *)
(***************************************************************************)
Units(bits, sp, tp) == [i \in 1..Len(bits) |-> CableContext(bits[i], sp, tp)]

SentOk == call.pc = "returned" /\ call.result = "Ok"

\* The call put its corrupted buffer, one unit per bit and each with the
\* call's ports, at the end of the queue of node other and nothing elsewhere.
DeliveredTo(other) ==
    /\ Len(call.corrupted) = Len(call.data)
    /\ call.corrupted = corrupt_borrow(corruption_at_call, call.data).res.bits
    /\ corruption_at_call.variant = "None" => call.corrupted = call.data
    /\ queue[other] = queue_at_call[other]
                      \o Units(call.corrupted, call.source_port, call.target_port)
    /\ \A n \in Nodes \ {other} : queue[n] = queue_at_call[n]

(***************************************************************************)
(* C10: medium delivery.  A send_bits call by one of the cable's two nodes *)
(* that returns Ok has enqueued exactly len(data) units on the other       *)
(* node's queue and none on the sender's; every unit carries the call's    *)
(* ports and the bits, in queue order, are the corrupted buffer, which is  *)
(* data itself under Corruption::None.                                     *)
(***************************************************************************)
MediumDelivery ==
    (SentOk /\ call.sender \in {1, 2}) => DeliveredTo(3 - call.sender)

\* C10 as it holds: the same, for a cable whose two nodes have different
\* addresses.
MediumDeliveryDistinctMacs ==
    (SentOk /\ call.sender \in {1, 2} /\ node1_mac # node2_mac) =>
        DeliveredTo(3 - call.sender)

\* Node 2 has sent two or more bits through a bit-flipping cable to node 1,
\* whose queue already held units of an earlier call.
MediumDeliveryWitness ==
    /\ SentOk /\ call.sender = 2 /\ node1_mac # node2_mac
    /\ corruption_at_call.variant = "OneBitFlip"
    /\ Len(call.data) >= 2 /\ call.corrupted # call.data
    /\ Len(queue_at_call[1]) > 0
    /\ Len(queue[1]) = Len(queue_at_call[1]) + Len(call.data)

(***************************************************************************)
(* C11: medium topology error.  A send_bits call whose source address is   *)
(* neither node1_mac nor node2_mac returns an error, enqueues no unit on   *)
(* any queue and leaves the cable's corruption generator as it was.        *)
(***************************************************************************)
StrangerCall ==
    call.pc # "idle" /\ call.source_mac # node1_mac /\ call.source_mac # node2_mac

TopologyError ==
    StrangerCall =>
        /\ call.pc = "returned"
        /\ call.result = "Err: Cable does not connect these nodes"
        /\ queue = queue_at_call
        /\ corruption_type = corruption_at_call

\* A stranger's call on a bit-flipping cable that has delivered bits before.
TopologyErrorWitness ==
    /\ StrangerCall /\ call.pc = "returned" /\ Len(call.data) > 0
    /\ corruption_type.variant = "OneBitFlip"
    /\ corruption_type.rand # XorShift_new(6969)
    /\ Len(queue[1]) + Len(queue[2]) > 0

(***************************************************************************)
(* C12: medium timing.  In simulated time (every sleep lasting exactly its *)
(* duration), a send_bits call of k bits on a cable with latency L and     *)
(* spacing S = (1 ms / throughput) / 8 has not returned Ok before L + S*k  *)
(* has passed since it began, and no bit is enqueued before L has passed.  *)
(***************************************************************************)
UnitsSent == Len(queue[1]) + Len(queue[2]) - Len(queue_at_call[1]) - Len(queue_at_call[2])

MediumTiming ==
    /\ (call.pc = "returned" /\ call.result = "Ok") =>
           call.elapsed >= latency + time_between_bits * Len(call.data)
    /\ (call.pc # "idle" /\ UnitsSent > 0) => call.elapsed >= latency
    /\ \E t \in CableTimings :
          /\ latency = t[1] * 1000000
          /\ time_between_bits = (1000000 \div t[2]) \div 8

\* Two or more bits have gone over a cable with a latency and a spacing.
MediumTimingWitness ==
    /\ call.pc = "returned" /\ call.result = "Ok" /\ Len(call.data) >= 2
    /\ latency > 0 /\ time_between_bits > 0
    /\ UnitsSent = Len(call.data)

(***************************************************************************)
(* The data link layer: what the claims read of a thread.                  *)
(***************************************************************************)
\* The bits of the units in node 2's queue that carry thread t's ports.
ThreadBits(t) ==
    LET Mine(u) == u.source_port = ThreadPorts[t][1]
                   /\ u.target_port = ThreadPorts[t][2]
        mine == SelectSeq(queue[2], Mine)
    IN  [i \in 1..Len(mine) |-> mine[i].bit]

ClosedChannel == "Err: sending on a closed channel"

(***************************************************************************)
(* C13: delivery failure.  When the destination's receiver is closed as a  *)
(* unit is enqueued, Cable::send_bits stops: it enqueues nothing further,  *)
(* returns a delivery error and does not abort; it returns Ok only with    *)
(* every unit enqueued.  DataLinkLayer::send_bits returns that error to    *)
(* its caller and hands no later frame to the cable.                       *)
(***************************************************************************)
DeliveryFailure ==
    \A t \in Threads :
        LET th == thread[t]
            c == th.call
            sent == Len(c.corrupted) - Len(c.rest)
        IN  /\ c.pc # "panicked"
            /\ c.pc \in {"sending", "returned"} =>
                  ThreadBits(t) = SubSeq(c.corrupted, 1, sent)
            /\ (c.pc = "returned" /\ c.result = "Ok") => sent = Len(c.corrupted)
            /\ c.result = ClosedChannel =>
                  /\ c.pc = "returned" /\ ~receiver_open[c.dest]
                  /\ Len(c.rest) > 0
                  /\ th.pc \in {"locked", "done"}
            /\ (th.pc = "done" /\ c.result = ClosedChannel) =>
                  /\ th.result = ClosedChannel
                  /\ Len(th.handed) = th.next + 1
            /\ (th.pc = "done" /\ th.result = "Ok") => c.result # ClosedChannel

\* Node 2 went away in the middle of a frame: some of its units are in the
\* queue, the rest were never sent, and the thread has the error.
DeliveryFailureWitness ==
    \E t \in Threads :
        /\ thread[t].pc = "done" /\ thread[t].result = ClosedChannel
        /\ Len(ThreadBits(t)) > 0
        /\ Len(ThreadBits(t)) < Len(thread[t].call.corrupted)

(***************************************************************************)
(* C14: orchestrator hand-off.  For every outbound buffer and every window *)
(* size >= 1, a DataLinkLayer::send_bits that returns Ok has handed every  *)
(* frame of setup_frames to the cable exactly once, in sequence order,     *)
(* each as prepare_bits of its serialized buffer: no frame is skipped.     *)
(***************************************************************************)
OrchestratorHandOff ==
    \A t \in Threads :
        (thread[t].pc = "done" /\ thread[t].result = "Ok"
         /\ thread[t].window_size >= 1) =>
            thread[t].handed = [i \in 1..Len(thread[t].frames) |->
                                  prepare_bits(thread[t].frames[i]).bits]

(***************************************************************************)
(* C15: serialized access to a shared cable.  The lock is held for the     *)
(* whole of each Cable::send_bits call: at most one thread is inside a     *)
(* call, the units of one call form one contiguous block of the            *)
(* destination queue, and the corruption generator has been advanced once  *)
(* for each call that has corrupted its buffer.                            *)
(***************************************************************************)
InCall(t) == thread[t].pc = "locked"

Corrupted(t) == thread[t].call.pc \in {"sending", "returned"}

\* The places of node 2's queue where the unit after is of another call.
Boundaries ==
    {i \in 1..(Len(queue[2]) - 1) :
        queue[2][i].source_port # queue[2][i + 1].source_port}

SerializedAccess ==
    /\ Cardinality({t \in Threads : InCall(t)}) <= 1
    /\ \A t \in Threads : InCall(t) => cable_lock = t
    /\ Cardinality(Boundaries) <= 1
    /\ LET n == Cardinality({t \in Threads : Corrupted(t)})
           seed == XorShift_new(6969)
       IN  corruption_type.rand =
              IF n = 0 THEN seed
              ELSE IF n = 1 THEN next_int(seed)
              ELSE next_int(next_int(seed))

\* Both threads have sent a frame: two blocks in node 2's queue.
SerializedAccessWitness ==
    /\ \A t \in Threads :
          /\ thread[t].pc = "done" /\ thread[t].result = "Ok"
          /\ Len(thread[t].handed) = 1
          /\ Len(ThreadBits(t)) = Len(thread[t].handed[1])
    /\ Cardinality(Boundaries) = 1

(***************************************************************************)
(* The corruption strategies: what the claims read of a call.              *)
(***************************************************************************)
\* The number of positions in which two buffers of one length differ.
bits_flipped(left, right) ==
    Cardinality({i \in 1..Len(left) : left[i] # right[i]})

\* The first value has been given a buffer.
CalledA == cor_pc \in {"a", "b"} /\ cor_out_a.tag # "NotCalled"

GeneratorAdvance ==
    (cor_pc = "b" /\ cor_a.variant # "None") => cor_a.rand # cor_a_before.rand

(***************************************************************************)
(* C18: OneBitFlip.  For every seed and every non-empty buffer the result  *)
(* has the length of the input and differs from it in exactly one          *)
(* position; the bits a cable with this strategy enqueues for a call       *)
(* differ from the bits the call was given in exactly one position.        *)
(***************************************************************************)
\* one_bit_flip over every seed and buffer of the corruption harness
OneBitFlipAll ==
    \A s \in CorSeeds, d \in CorInputs :
        LET o == corrupt_borrow(OneBitFlip(XorShift_new(s)), d).res
        IN  o.tag = "Ok" /\ Len(o.bits) = Len(d) /\ bits_flipped(d, o.bits) = 1

\* The bits of the units the call has put on its destination's queue.
Received ==
    LET q == queue[call.dest]
        from == Len(queue_at_call[call.dest])
    IN  [i \in 1..(Len(q) - from) |-> q[from + i].bit]

OneBitFlipExact ==
    /\ OneBitFlipAll
    /\ ((call.pc = "sending" \/ SentOk)
        /\ corruption_at_call.variant = "OneBitFlip") =>
           /\ Len(call.corrupted) = Len(call.data)
           /\ bits_flipped(call.data, call.corrupted) = 1
    /\ (SentOk /\ corruption_at_call.variant = "OneBitFlip") =>
           /\ Len(Received) = Len(call.data)
           /\ bits_flipped(call.data, Received) = 1

\* Two bits or more have gone over a bit-flipping cable whose generator
\* had been used before.
OneBitFlipExactWitness ==
    /\ SentOk /\ corruption_at_call.variant = "OneBitFlip"
    /\ corruption_at_call.rand # {} /\ corruption_at_call.rand # XorShift_new(6969)
    /\ Len(call.data) >= 2
    /\ bits_flipped(call.data, Received) = 1

(***************************************************************************)
(* C19: MultiBitFlipEven.  For every seed, every chance in 0..=100 and     *)
(* every non-empty buffer the result has the length of the input and       *)
(* differs from it in an even number of positions; with chance = 0 the     *)
(* result is the input.                                                    *)
(***************************************************************************)
MultiBitFlipEvenParity ==
    (CalledA /\ cor_a.variant = "MultiBitFlipEven") =>
        /\ cor_out_a.tag = "Ok"
        /\ Len(cor_out_a.bits) = Len(cor_data)
        /\ bits_flipped(cor_data, cor_out_a.bits) % 2 = 0
        /\ cor_a.chance = 0 => cor_out_a.bits = cor_data

\* A buffer of an odd length came back with two of its bits flipped.
MultiBitFlipEvenParityWitness ==
    /\ CalledA /\ cor_a.variant = "MultiBitFlipEven" /\ cor_a.chance > 0
    /\ Len(cor_data) % 2 = 1
    /\ cor_out_a.tag = "Ok" /\ bits_flipped(cor_data, cor_out_a.bits) = 2

(***************************************************************************)
(* C20: MultiBitFlipOdd.  For every seed, every chance in 0..=100 and      *)
(* every non-empty buffer the result differs from the input in an odd      *)
(* number of positions, so it is never the input.                          *)
(***************************************************************************)
MultiBitFlipOddParity ==
    (CalledA /\ cor_a.variant = "MultiBitFlipOdd") =>
        /\ cor_out_a.tag = "Ok"
        /\ Len(cor_out_a.bits) = Len(cor_data)
        /\ bits_flipped(cor_data, cor_out_a.bits) % 2 = 1

(***************************************************************************)
(* C21: BurstFlip.  For every seed and every non-empty buffer of n bits    *)
(* the call completes, the result has n bits and the positions in which it *)
(* differs from the input are one run of consecutive positions of the      *)
(* buffer, of a length from min(n/2, 4) to min(n/2, 16).                   *)
(***************************************************************************)
\* The positions in which the last buffer given and its result differ.
Flipped == {i \in 1..Len(cor_data) : cor_data[i] # cor_out_a.bits[i]}

Contiguous(S) == \A i \in S, j \in S : \A k \in i..j : k \in S

BadChance(c) ==
    c.variant \in {"MultiBitFlipEven", "MultiBitFlipOdd"} /\ c.chance > 100

ContractViolations ==
    /\ cor_out_a.tag \in {"NotCalled", "Ok", "Panic"}
    /\ cor_out_a.tag = "Panic" <=> cor_pc = "panicked"
    /\ cor_out_a.tag = "Panic" =>
          /\ Len(cor_data) = 0 \/ BadChance(cor_a_before)
          /\ cor_a = cor_a_before
    /\ cor_out_a.tag = "Ok" => (Len(cor_data) > 0 /\ ~BadChance(cor_a_before))
    /\ Len(cor_data) = 0 =>
          cor_out_a.tag \in {"NotCalled", "Panic"}
    /\ cor_out_b.tag \in {"NotCalled", "Ok"}

\* A strategy that had completed a call was given an empty buffer.
ContractViolationsWitness ==
    /\ cor_pc = "panicked" /\ cor_bits > 0 /\ cor_data = <<>>
    /\ cor_a.variant \in {"None", "Random", "RandomCorruption"}

(***************************************************************************)
(* C23: result of the CRC decode.  For every generator whose first bit is  *)
(* On and every received buffer, of any length, check_and_remove returns   *)
(* an integrity error or Ok of the buffer without its last len(g) - 1      *)
(* bits; it does not abort.                                                *)
(***************************************************************************)
CrcDecodeResult ==
    (crc_pc = "received" /\ Len(generator) > 0 /\ generator[1] = On) =>
        \/ crc_checked.tag = "Err"
        \/ /\ Len(crc_received) >= Len(generator) - 1
           /\ crc_checked = Ok(SubSeq(crc_received, 1,
                                      Len(crc_received) - (Len(generator) - 1)))

(***************************************************************************)
(* C28: CRC single-bit detection.  For every generator of two bits or more *)
(* whose first and last bits are On and every non-empty data d,            *)
(* check_and_remove of add(g, d) with any one bit flipped returns an       *)
(* integrity error.                                                        *)
(***************************************************************************)
SingleBitDetection ==
    (crc_pc = "flipped" /\ Len(generator) >= 2
     /\ generator[1] = On /\ generator[Len(generator)] = On
     /\ Len(crc_data) > 0) =>
        crc_checked.tag = "Err"

\* A bit of the data, not of the remainder, was flipped under a generator
\* of three bits or more.
SingleBitDetectionWitness ==
    /\ crc_pc = "flipped" /\ Len(generator) >= 3
    /\ generator[1] = On /\ generator[Len(generator)] = On
    /\ Len(crc_data) >= 2
    /\ SubSeq(crc_received, 1, Len(crc_data)) # crc_data
    /\ crc_checked.tag = "Err"

(***************************************************************************)
(* C24: word set/get round trip.  For every buffer, word width N, value w  *)
(* and index with index + N <= len: after set_<N>(index, w), get_<N>(index)*)
(* returns w, bit i of w counted from the most significant sits at         *)
(* position index + i, the length is unchanged and so is every bit outside *)
(* [index, index + N).                                                     *)
(***************************************************************************)
\* Bit i of an N-bit word, the most significant being bit 0.
WordBit(w, bit_size, i) == (w \div Pow2(bit_size - 1 - i)) % 2

WordRoundTrip ==
    (bits_pc = "done" /\ bits_op.name = "set") =>
        LET N == bits_op.bit_size
            index == bits_op.index
        IN  /\ bits_out.words = <<bits_op.data>>
            /\ Len(bits_out.bits) = Len(bits_in)
            /\ \A i \in 0..(N - 1) :
                  bits_out.bits[index + i + 1] = WordBit(bits_op.data, N, i)
            /\ \A k \in 1..Len(bits_in) :
                  (k <= index \/ k > index + N) => bits_out.bits[k] = bits_in[k]

(***************************************************************************)
(* C25: padded word conversion.  For every buffer and word width N,        *)
(* as_vec_with_padding_<N> returns ceil(len/N) words, word j being         *)
(* get_<N>(j*N) of the buffer, so that a last partial word has its bits    *)
(* most significant first and zeros after them; as_vec_exact_<N> returns   *)
(* the same when len is a multiple of N and try_as_vec_exact_<N> returns   *)
(* an error when it is not.                                                *)
(***************************************************************************)
PaddedWordsOf(bs, bit_size) ==
    [j \in 1..((Len(bs) + bit_size - 1) \div bit_size) |->
        get_type(bs, (j - 1) * bit_size, bit_size)]

PaddedWords ==
    LET N == bits_op.bit_size
        exact == Len(bits_in) % N = 0
    IN  /\ bits_op.name = "as_vec_with_padding" =>
              bits_out = WordsOk(PaddedWordsOf(bits_in, N))
        /\ (bits_op.name = "as_vec_exact" /\ exact) =>
              bits_out = WordsOk(PaddedWordsOf(bits_in, N))
        /\ bits_op.name = "try_as_vec_exact" =>
              IF exact THEN bits_out = WordsOk(PaddedWordsOf(bits_in, N))
              ELSE bits_out.tag = "Err"

(***************************************************************************)
(* C26: shifts.  For every buffer and amount N, >>= and <<= leave the      *)
(* length as it was; for N < len, >>= moves old bit i to i + N and <<=     *)
(* moves old bit i + N to i, the N positions left free being Off; for      *)
(* N >= len every bit of the result is Off.                                *)
(***************************************************************************)
Shifts ==
    (bits_pc = "done" /\ bits_op.name \in {"shr", "shl"}) =>
        LET N == bits_op.amount
            len == Len(bits_in)
        IN  /\ Len(bits_out.bits) = len
            /\ bits_op.name = "shr" =>
                  \A k \in 1..len :
                      bits_out.bits[k] = IF k <= N THEN Off ELSE bits_in[k - N]
            /\ bits_op.name = "shl" =>
                  \A k \in 1..len :
                      bits_out.bits[k] = IF k + N > len THEN Off ELSE bits_in[k + N]

(***************************************************************************)
(* C27: the frame checksum verifies.  For every frame build produces, the  *)
(* 16-bit words of the whole serialized buffer, the checksum included,     *)
(* added as unsigned numbers with the carries above bit 15 added back into *)
(* the low 16 bits, give 0xFFFF.                                           *)
(***************************************************************************)
\* The sum of the 16-bit words of bs from word j on.
RECURSIVE WordSum(_, _)
WordSum(bs, j) ==
    IF 16 * j >= Len(bs) THEN 0 ELSE WordAt(bs, 16 * j, 16) + WordSum(bs, j + 1)

RECURSIVE EndAround(_)
EndAround(sum) ==
    IF sum > 65535 THEN EndAround((sum \div 65536) + (sum % 65536)) ELSE sum

ChecksumVerifies ==
    built.tag = "Ok" =>
        \A i \in 1..Len(built.frames) :
            /\ Len(built.frames[i].output_bitstring) % 16 = 0
            /\ EndAround(WordSum(built.frames[i].output_bitstring, 0)) = 65535

\* build_all has made a frame with a payload and one without, the first
\* with carries to fold.
ChecksumVerifiesWitness ==
    /\ built.tag = "Ok" /\ Len(built.frames) >= 2
    /\ \E i \in 1..Len(built.frames) :
          /\ Len(built.frames[i].data) > 0
          /\ WordSum(built.frames[i].output_bitstring, 0) > 65535
    /\ \E i \in 1..Len(built.frames) : Len(built.frames[i].data) = 0

(***************************************************************************)
(* C29: flag transparency.  For every input buffer the result of           *)
(* stuff_bits holds no run of six consecutive On bits, so 01111110 does    *)
(* not occur in the stuffed payload that prepare_bits puts between the two *)
(* flags.                                                                  *)
(***************************************************************************)
SixOnes(bs) ==
    \E i \in 1..(Len(bs) - 5) : \A k \in 0..5 : bs[i + k] = On

FlagTransparency ==
    /\ stuffed.tag = "Ok" => ~SixOnes(stuffed.bits)
    /\ wire.tag = "Ok" =>
          ~ContainsFlag(SubSeq(wire.bits, 9, Len(wire.bits) - 8))

(***************************************************************************)
(* C30: per-call FIFO under interleaving.  When two cables that hold       *)
(* clones of one node's transmitter are sent on at the same time, in every *)
(* interleaving the queue of that node holds the units of each call in the *)
(* order of the call's corrupted buffer, none lost and none twice; the     *)
(* units of the two calls may alternate.                                   *)
(***************************************************************************)
\* The units the call of cable c has sent to node n so far.
SentTo(c, n) ==
    LET k == cables[c].call
    IN  IF k.pc \in {"sending", "returned"} /\ k.dest # 0 /\ DestNode(c) = n
        THEN Units(SubSeq(k.corrupted, 1, Len(k.corrupted) - Len(k.rest)),
                   k.source_port, k.target_port)
        ELSE <<>>

\* q is a and b shuffled together, each in its order.
RECURSIVE IsMerge(_, _, _)
IsMerge(q, a, b) ==
    IF Len(q) = 0 THEN Len(a) = 0 /\ Len(b) = 0
    ELSE \/ Len(a) > 0 /\ Head(a) = Head(q) /\ IsMerge(Tail(q), Tail(a), b)
         \/ Len(b) > 0 /\ Head(b) = Head(q) /\ IsMerge(Tail(q), a, Tail(b))

PerCallFifo ==
    /\ \A n \in Nodes : IsMerge(queue[n], SentTo(1, n), SentTo(2, n))
    /\ \A c \in CableIds :
          (cables[c].call.pc = "returned" /\ cables[c].call.result = "Ok") =>
              /\ Len(cables[c].call.rest) = 0
              /\ Len(cables[c].call.corrupted) = Len(cables[c].call.data)

\* Both calls have sent two bits or more to node 2 and have returned, and
\* the queue is neither call's units followed by the other's.
PerCallFifoWitness ==
    /\ \A c \in CableIds :
          /\ cables[c].call.pc = "returned" /\ cables[c].call.result = "Ok"
          /\ Len(SentTo(c, 2)) >= 2
    /\ queue[2] # SentTo(1, 2) \o SentTo(2, 2)
    /\ queue[2] # SentTo(2, 2) \o SentTo(1, 2)

=============================================================================
